---- MODULE Spec2Model ----
(***************************************************************************)
(* Pay-as-you-consume: the YieldVault share ledger (src/contracts/src/     *)
(* YieldVault.sol, with MockUSDC in the same file), the Model A            *)
(* StreamingWallet session engine (src/unnamed/part_001) and the Model B   *)
(* StreamingWalletV2 session engine (src/unnamed/part_002).                *)
(*                                                                         *)
(* Every external call is one action.  A call that reverts leaves the      *)
(* contract storage as it was (EVM transaction atomicity) and is recorded  *)
(* in `last` with ok = FALSE.  The contract functions are operators over a *)
(* ledger record, so that a call made from another contract               *)
(* (StreamingWallet._deductPayment, MockUSDC.mintWithYield) composes them  *)
(* exactly as the code does.                                               *)
(***************************************************************************)
EXTENDS Integers, Sequences, FiniteSets, TLC

\* ------------------------------------------------------------------------
\* Bounds of the model
\* ------------------------------------------------------------------------
\* asset units every user holds before the first call
InitialFunds == 10
\* asset units mintWithYield may create on top of the users' funds
MaxMinted == 18
\* asset units the deployment deposits for every demo account
DemoDeposit == 10
\* the ledger specifications run for MaxHalfYears half years, the session
\* specifications for MaxSeconds seconds
MaxHalfYears == 1
MaxSeconds == 6
\* the accrual specification runs for MaxYears whole years
MaxYears == 2
\* number of committed calls of a behaviour, for the ledger specifications,
\* for the specification of every ledger operation, and for the session
\* specifications
MaxLedgerCalls == 3
MaxVaultCalls == 2
MaxSessionCalls == 5
\* committed calls of a behaviour that re-lists content while sessions run
MaxCatalogCalls == 4
\* Model B: asset units the set-up deposits for alice and for bob, number of
\* sessions a behaviour opens, seconds it runs for, and committed calls
AliceDeposit == 4000
BobDeposit == 2000
MaxSessions == 2
MaxV2Seconds == 3
MaxV2Calls == 3
\* calls back into the wallet that one external call of stopSession makes,
\* and seconds a behaviour with such calls runs for
MaxNested == 2
MaxGuardSeconds == 1
\* src/blockchain: asset units every user mints, asset units the owner adds
\* as yield, seconds a behaviour runs for, and committed calls
BcFunds == 10
BcYield == 4
MaxBcSeconds == 2
MaxBcCalls == 4
\* backend: requests a behaviour sends to the server
MaxRequests == 3

Users == {"alice", "bob"}
\* the accounts that hold the asset: the users and the vault contract
VAULT == "vault"
\* the streaming wallet deployed over the vault (StreamingWallet or
\* StreamingWalletV2): msg.sender of the withdrawals it issues
WALLET == "streamingWallet"
Contents == {"c1"}

\* amounts offered to deposit / withdraw / mintWithYield
DepositAmounts == {0, 4, 10}
WithdrawAmounts == {0, 3, 5, 8, 11}
MintAmounts == {10, 15}
\* share amounts offered to mint / redeem / transfer, rates offered to setAPY
ShareAmounts == {4, 10}
Rates == {0, 3000, 10001}
\* (fullPrice, totalDuration) pairs offered to listContent; the first is the
\* listing of the demo content, the second another price for it
DemoListing == <<5, 2>>
NewListing == <<9, 3>>
\* the listing of the content of the src/blockchain deployment
BcListing == <<6, 3>>
Listings == {DemoListing, NewListing, <<0, 2>>, <<5, 0>>}
DemoContent == "c1"
\* Model B: contentId and pricePerSecond offered to startSession (bytes32(0)
\* is "0x0"), and consumedSec values a caller reports to stopSession
ContentIds == {"c1", "0x0"}
Prices == {333, 0}
ReportedSecs == {0, 1, 7}

\* ------------------------------------------------------------------------
\* Program constants
\* ------------------------------------------------------------------------
SECONDS_PER_YEAR == 31536000
BASIS_POINTS == 10000
\* the vault is deployed with the largest rate its constructor admits
InitialAPY == BASIS_POINTS
\* the fixed-point scale 1e18 is LIMB^3; the index is kept in limbs of 1e6
\* because the model checker's integers are 32 bits wide
LIMB == 1000000
\* block.timestamp of the deployment
GenesisTime == 1

\* time advances offered to the ledger specifications and to the session
\* specifications
HalfYear == SECONDS_PER_YEAR \div 2

Min(a, b) == IF a <= b THEN a ELSE b
Max(a, b) == IF a >= b THEN a ELSE b

\* ------------------------------------------------------------------------
\* State
\* ------------------------------------------------------------------------
VARIABLES
    now,                      \* block.timestamp
    nonce,                    \* number of committed calls so far
    usdcBalance,              \* MockUSDC balances of the users and the vault
    principalOf,              \* YieldVault.principalOf
    totalPrincipal,           \* YieldVault.totalPrincipal
    apyBasisPoints,           \* YieldVault.apyBasisPoints
    lastYieldUpdate,          \* YieldVault.lastYieldUpdate
    accumulatedYieldPerShare, \* YieldVault.accumulatedYieldPerShare (limbs)
    yieldDebt,                \* YieldVault.yieldDebt
    balanceOf,                \* ERC20 share balances of the vault token
    totalSupply,              \* ERC20 total share supply of the vault token
    walletApproved,           \* vault.approve(streamingWallet, max) was given
    userSessions,             \* StreamingWallet.userSessions
    contentInfo,              \* StreamingWallet.contentInfo
    playedTime,               \* observer: seconds each open session was active
    last,                     \* observer: the last external call and outcome
    _sessionCounter,          \* StreamingWalletV2._sessionCounter
    sessions,                 \* StreamingWalletV2.sessions
    userActiveSessions,       \* StreamingWalletV2.userActiveSessions
    playingTime,              \* observer: seconds each session spent Playing
    lastId,                   \* observer: sessionId of the last Model B call
    _status,                  \* StreamingWalletV2: ReentrancyGuard._status
    callFrame,                \* the stopSession call waiting in vault.withdraw
    chain,                    \* src/blockchain: storage of the three contracts
    dbSessions,               \* backend: rows of the session table
    requests,                 \* backend: the requests being served
    served                    \* backend: number of requests accepted so far

ledgerVars == <<usdcBalance, principalOf, totalPrincipal, apyBasisPoints,
                lastYieldUpdate, accumulatedYieldPerShare, yieldDebt,
                balanceOf, totalSupply>>
walletVars == <<userSessions, contentInfo>>
v2Vars == <<_sessionCounter, sessions, userActiveSessions>>
guardVars == <<_status, callFrame>>
modelBVars == <<v2Vars, playingTime, lastId, guardVars>>
backendVars == <<dbSessions, requests, served>>
extVars == <<chain, backendVars>>
contractVars == <<now, nonce, ledgerVars, walletApproved, walletVars,
                  playedTime, last, modelBVars>>
vars == <<now, nonce, ledgerVars, walletApproved, walletVars, playedTime, last,
          modelBVars, extVars>>

\* ------------------------------------------------------------------------
\* Fixed-point index arithmetic, exact for the scale 1e18
\* An index value <<i, a, b, c>> stands for i*1e18 + a*1e12 + b*1e6 + c.
\* ------------------------------------------------------------------------
ZeroIndex == <<0, 0, 0, 0>>

\* (y * 1e18) / s, truncating
PerShare(y, s) ==
    LET r0 == y % s
        r1 == (r0 * LIMB) % s
        r2 == (r1 * LIMB) % s
    IN <<y \div s, (r0 * LIMB) \div s, (r1 * LIMB) \div s, (r2 * LIMB) \div s>>

IndexAdd(x, y) ==
    LET c == x[4] + y[4]
        b == x[3] + y[3] + (c \div LIMB)
        a == x[2] + y[2] + (b \div LIMB)
    IN <<x[1] + y[1] + (a \div LIMB), a % LIMB, b % LIMB, c % LIMB>>

\* (n * x) / 1e18, truncating
MulIndex(n, x) ==
    LET c == n * x[4]
        b == n * x[3] + (c \div LIMB)
        a == n * x[2] + (b \div LIMB)
    IN n * x[1] + (a \div LIMB)

IndexLeq(x, y) ==
    \/ x[1] < y[1]
    \/ x[1] = y[1] /\ x[2] < y[2]
    \/ x[1] = y[1] /\ x[2] = y[2] /\ x[3] < y[3]
    \/ x[1] = y[1] /\ x[2] = y[2] /\ x[3] = y[3] /\ x[4] <= y[4]

\* (principal * apy * elapsed) / (365 days * 10000), truncating; the product
\* is divided by 10000 first and by the year second, which gives the same
\* quotient without an intermediate above 32 bits
AccruedYield(principal, apy, elapsed) ==
    LET x == principal * apy
        xq == x \div BASIS_POINTS
        xr == x % BASIS_POINTS
        tq == elapsed \div BASIS_POINTS
        tr == elapsed % BASIS_POINTS
        perTenThousand == xq * elapsed + xr * tq + ((xr * tr) \div BASIS_POINTS)
    IN perTenThousand \div SECONDS_PER_YEAR

\* Math.mulDiv(x, y, d, rounding)
mulDiv(x, y, d, roundUp) ==
    IF roundUp THEN (x * y + d - 1) \div d ELSE (x * y) \div d

\* ------------------------------------------------------------------------
\* The ledger as a record: the vault's storage, its share token and the
\* asset balances.  ok = FALSE marks a reverted call.
\* ------------------------------------------------------------------------
Ledger ==
    [ok |-> TRUE,
     usdcBalance |-> usdcBalance,
     principalOf |-> principalOf,
     totalPrincipal |-> totalPrincipal,
     apyBasisPoints |-> apyBasisPoints,
     lastYieldUpdate |-> lastYieldUpdate,
     accumulatedYieldPerShare |-> accumulatedYieldPerShare,
     yieldDebt |-> yieldDebt,
     balanceOf |-> balanceOf,
     totalSupply |-> totalSupply]

Revert(s) == [s EXCEPT !.ok = FALSE]

\* the call committed: storage becomes r; the call reverted: storage is kept
Commit(r) ==
    IF r.ok
    THEN /\ usdcBalance' = r.usdcBalance
         /\ principalOf' = r.principalOf
         /\ totalPrincipal' = r.totalPrincipal
         /\ apyBasisPoints' = r.apyBasisPoints
         /\ lastYieldUpdate' = r.lastYieldUpdate
         /\ accumulatedYieldPerShare' = r.accumulatedYieldPerShare
         /\ yieldDebt' = r.yieldDebt
         /\ balanceOf' = r.balanceOf
         /\ totalSupply' = r.totalSupply
    ELSE UNCHANGED ledgerVars

\* ------------------------------------------------------------------------
\* YieldVault (src/contracts/src/YieldVault.sol); t is block.timestamp
\* ------------------------------------------------------------------------
\* an accrual that moves the clock and leaves the index
_updateYield_clockOnly(s, t) == [s EXCEPT !.lastYieldUpdate = t]

_updateYield(s, t) ==
    IF s.totalSupply = 0
    THEN [s EXCEPT !.lastYieldUpdate = t]
    ELSE LET timeElapsed == t - s.lastYieldUpdate
             yieldGenerated ==
                 AccruedYield(s.totalPrincipal, s.apyBasisPoints, timeElapsed)
         IN IF timeElapsed = 0
            THEN s
            ELSE [s EXCEPT
                    !.accumulatedYieldPerShare =
                        IF yieldGenerated > 0
                        THEN IndexAdd(@, PerShare(yieldGenerated, s.totalSupply))
                        ELSE @,
                    !.lastYieldUpdate = t]

_getCurrentAccumulatedYieldPerShare_stored(s, t) ==
    s.accumulatedYieldPerShare

_getCurrentAccumulatedYieldPerShare(s, t) ==
    IF s.totalSupply = 0
    THEN s.accumulatedYieldPerShare
    ELSE LET timeElapsed == t - s.lastYieldUpdate
             pendingYield ==
                 AccruedYield(s.totalPrincipal, s.apyBasisPoints, timeElapsed)
         IN IF timeElapsed = 0
            THEN s.accumulatedYieldPerShare
            ELSE IF pendingYield > 0
                 THEN IndexAdd(s.accumulatedYieldPerShare,
                               PerShare(pendingYield, s.totalSupply))
                 ELSE s.accumulatedYieldPerShare

yieldOf(s, user, t) ==
    IF s.totalSupply = 0 THEN 0
    ELSE LET currentAccumulated == _getCurrentAccumulatedYieldPerShare(s, t)
             userShares == s.balanceOf[user]
             userTotalYield == MulIndex(userShares, currentAccumulated)
             userDebt == s.yieldDebt[user]
         IN IF userShares = 0 THEN 0
            ELSE IF userTotalYield > userDebt THEN userTotalYield - userDebt
            ELSE 0

_updateUserYieldDebt(s, user) ==
    [s EXCEPT !.yieldDebt[user] =
        MulIndex(s.balanceOf[user], s.accumulatedYieldPerShare)]

totalAssets(s, t) ==
    LET baseAssets == s.usdcBalance[VAULT]
        timeElapsed == t - s.lastYieldUpdate
        pendingYield ==
            AccruedYield(s.totalPrincipal, s.apyBasisPoints, timeElapsed)
    IN IF s.totalPrincipal = 0 THEN baseAssets ELSE baseAssets + pendingYield

\* ERC4626._convertToShares / _convertToAssets with _decimalsOffset() = 0
_convertToShares(s, assets, roundUp, t) ==
    mulDiv(assets, s.totalSupply + 1, totalAssets(s, t) + 1, roundUp)

_convertToAssets(s, shares, roundUp, t) ==
    mulDiv(shares, totalAssets(s, t) + 1, s.totalSupply + 1, roundUp)

\* the vault's _update override around ERC20._update; ZERO is address(0)
ZERO == "0x0"

_update(s, from, to, value, t) ==
    LET s1 == IF from # ZERO THEN _updateYield(s, t) ELSE s
    IN IF from # ZERO /\ s1.balanceOf[from] < value
       THEN Revert(s)
       ELSE LET s2 == IF from = ZERO
                      THEN [s1 EXCEPT !.totalSupply = @ + value]
                      ELSE [s1 EXCEPT !.balanceOf[from] = @ - value]
                s3 == IF to = ZERO
                      THEN [s2 EXCEPT !.totalSupply = @ - value]
                      ELSE [s2 EXCEPT !.balanceOf[to] = @ + value]
                s4 == IF from # ZERO THEN _updateUserYieldDebt(s3, from) ELSE s3
            IN IF to # ZERO THEN _updateUserYieldDebt(s4, to) ELSE s4

\* IERC20(asset).transferFrom / transfer of the underlying asset
assetTransfer(s, from, to, amount) ==
    IF s.usdcBalance[from] < amount
    THEN Revert(s)
    ELSE [s EXCEPT !.usdcBalance =
            [a \in DOMAIN @ |->
                @[a] - (IF a = from THEN amount ELSE 0)
                     + (IF a = to THEN amount ELSE 0)]]

\* ERC4626.deposit: previewDeposit, then _deposit (pull the asset, mint)
ERC4626deposit(s, caller, assets, receiver, t) ==
    LET shares == _convertToShares(s, assets, FALSE, t)
        s1 == assetTransfer(s, caller, VAULT, assets)
    IN IF s1.ok THEN _update(s1, ZERO, receiver, shares, t) ELSE Revert(s)

\* share allowance of `spender` over the shares of `owner`: only the
\* streaming wallet is ever approved, and with type(uint256).max, which
\* ERC20._spendAllowance never decreases
hasAllowance(owner, spender, approved) ==
    spender = WALLET /\ approved[owner]

\* ERC4626.withdraw: maxWithdraw, previewWithdraw, then _withdraw (spend the
\* allowance, burn, push the asset)
ERC4626withdraw(s, caller, assets, receiver, owner, approved, t) ==
    LET maxAssets == _convertToAssets(s, s.balanceOf[owner], FALSE, t)
        shares == _convertToShares(s, assets, TRUE, t)
        s1 == _update(s, owner, ZERO, shares, t)
        s2 == assetTransfer(s1, VAULT, receiver, assets)
    IN IF assets > maxAssets THEN Revert(s)
       ELSE IF caller # owner /\ ~hasAllowance(owner, caller, approved)
            THEN Revert(s)
       ELSE IF ~s1.ok THEN Revert(s)
       ELSE IF ~s2.ok THEN Revert(s)
       ELSE s2

deposit(s, caller, assets, receiver, t) ==
    LET s1 == _updateYield(s, t)
        s2 == ERC4626deposit(s1, caller, assets, receiver, t)
        s3 == [s2 EXCEPT !.principalOf[receiver] = @ + assets,
                         !.totalPrincipal = @ + assets]
    IN IF s2.ok THEN _updateUserYieldDebt(s3, receiver) ELSE Revert(s)

\* the part of a withdrawal taken from the yield
fromYieldOf_allFromPrincipal(assets, userYield) == 0

fromYieldOf(assets, userYield) == Min(assets, userYield)

\* the principal bookkeeping of withdraw: the require and the two decrements
\* (checked arithmetic: a decrement below zero reverts)
debitPrincipal_keepsTotal(s, owner, fromPrincipal) ==
    IF fromPrincipal > 0
    THEN IF s.principalOf[owner] < fromPrincipal
         THEN Revert(s)
         ELSE [s EXCEPT !.principalOf[owner] = @ - fromPrincipal]
    ELSE s

debitPrincipal_noRequire(s, owner, fromPrincipal) ==
    IF fromPrincipal > 0
    THEN [s EXCEPT !.principalOf[owner] = Max(0, @ - fromPrincipal),
                   !.totalPrincipal = Max(0, @ - fromPrincipal)]
    ELSE s

debitPrincipal(s, owner, fromPrincipal) ==
    IF fromPrincipal > 0
    THEN IF s.principalOf[owner] < fromPrincipal
         THEN Revert(s)   \* "YieldVault: Insufficient principal"
         ELSE IF s.totalPrincipal < fromPrincipal
              THEN Revert(s)
              ELSE [s EXCEPT !.principalOf[owner] = @ - fromPrincipal,
                             !.totalPrincipal = @ - fromPrincipal]
    ELSE s

withdraw(s, caller, assets, receiver, owner, approved, t) ==
    LET s1 == _updateYield(s, t)
        userYield == yieldOf(s1, owner, t)
        fromYield == fromYieldOf(assets, userYield)
        fromPrincipal == assets - fromYield
        s2 == debitPrincipal(s1, owner, fromPrincipal)
        s3 == ERC4626withdraw(s2, caller, assets, receiver, owner, approved, t)
    IN IF ~s2.ok THEN Revert(s)
       ELSE IF s3.ok THEN _updateUserYieldDebt(s3, owner) ELSE Revert(s)

\* ERC4626.mint: previewMint (rounded up), then _deposit
ERC4626mint(s, caller, shares, receiver, t) ==
    LET assets == _convertToAssets(s, shares, TRUE, t)
        s1 == assetTransfer(s, caller, VAULT, assets)
    IN IF s1.ok
       THEN [ok |-> TRUE, assets |-> assets,
             ledger |-> _update(s1, ZERO, receiver, shares, t)]
       ELSE [ok |-> FALSE, assets |-> 0, ledger |-> Revert(s)]

mint(s, caller, shares, receiver, t) ==
    LET s1 == _updateYield(s, t)
        r == CHOOSE x \in {ERC4626mint(s1, caller, shares, receiver, t)} : TRUE
        s3 == [r.ledger EXCEPT !.principalOf[receiver] = @ + r.assets,
                               !.totalPrincipal = @ + r.assets]
    IN IF r.ok THEN _updateUserYieldDebt(s3, receiver) ELSE Revert(s)

\* ERC4626.redeem: maxRedeem, previewRedeem (rounded down), then _withdraw
ERC4626redeem(s, caller, shares, receiver, owner, approved, t) ==
    LET maxShares == s.balanceOf[owner]
        assets == _convertToAssets(s, shares, FALSE, t)
        s1 == _update(s, owner, ZERO, shares, t)
        s2 == assetTransfer(s1, VAULT, receiver, assets)
        failed == [ok |-> FALSE, assets |-> 0, ledger |-> Revert(s)]
    IN IF shares > maxShares THEN failed
       ELSE IF caller # owner /\ ~hasAllowance(owner, caller, approved)
            THEN failed
       ELSE IF ~s1.ok THEN failed
       ELSE IF ~s2.ok THEN failed
       ELSE [ok |-> TRUE, assets |-> assets, ledger |-> s2]

\* the principal bookkeeping of redeem: two clamped decrements
clampPrincipal(s, owner, fromPrincipal) ==
    IF fromPrincipal > 0
    THEN [s EXCEPT !.principalOf[owner] =
                        IF @ >= fromPrincipal THEN @ - fromPrincipal ELSE 0,
                   !.totalPrincipal =
                        IF @ >= fromPrincipal THEN @ - fromPrincipal ELSE 0]
    ELSE s

redeem(s, caller, shares, receiver, owner, approved, t) ==
    LET s1 == _updateYield(s, t)
        r == CHOOSE x \in {ERC4626redeem(s1, caller, shares, receiver, owner,
                                         approved, t)} : TRUE
        userYield == yieldOf(r.ledger, owner, t)
        fromYield == Min(r.assets, userYield)
        fromPrincipal == r.assets - fromYield
        s3 == clampPrincipal(r.ledger, owner, fromPrincipal)
    IN IF r.ok THEN _updateUserYieldDebt(s3, owner) ELSE Revert(s)

\* ERC20.transfer of vault shares: the receiver must not be address(0)
transfer(s, from, to, value, t) ==
    IF to = ZERO THEN Revert(s) ELSE _update(s, from, to, value, t)

setAPY_noCap(s, caller, _newAPY, t) ==
    IF caller # "owner" THEN Revert(s)
    ELSE [_updateYield(s, t) EXCEPT !.apyBasisPoints = _newAPY]

setAPY_resetsIndex(s, caller, _newAPY, t) ==
    IF caller # "owner" THEN Revert(s)
    ELSE IF _newAPY > BASIS_POINTS THEN Revert(s)
    ELSE [s EXCEPT !.apyBasisPoints = _newAPY,
                   !.accumulatedYieldPerShare = ZeroIndex,
                   !.lastYieldUpdate = t]

\* a rate change that swaps the rate before the accrual runs
setAPY_swapFirst(s, caller, _newAPY, t) ==
    IF caller # "owner" THEN Revert(s)
    ELSE IF _newAPY > BASIS_POINTS THEN Revert(s)
    ELSE _updateYield([s EXCEPT !.apyBasisPoints = _newAPY], t)

\* setAPY(_newAPY), onlyOwner
setAPY(s, caller, _newAPY, t) ==
    IF caller # "owner" THEN Revert(s)
    ELSE IF _newAPY > BASIS_POINTS THEN Revert(s)
    ELSE [_updateYield(s, t) EXCEPT !.apyBasisPoints = _newAPY]

\* simulateYield(user, amount), callable by the asset contract only; the
\* asset is pulled from the caller
simulateYield(s, caller, amount) ==
    LET s1 == IF s.totalSupply > 0
              THEN [s EXCEPT !.accumulatedYieldPerShare =
                        IndexAdd(@, PerShare(amount, s.totalSupply))]
              ELSE s
        s2 == assetTransfer(s1, caller, VAULT, amount)
    IN IF caller # "usdc" THEN Revert(s)
       ELSE IF s2.ok THEN s2 ELSE Revert(s)


\* ------------------------------------------------------------------------
\* MockUSDC (second contract of src/contracts/src/YieldVault.sol)
\* ------------------------------------------------------------------------
USDC == "usdc"
OWNER == "owner"

\* ERC20._mint of the asset
usdcMint(s, to, amount) ==
    [s EXCEPT !.usdcBalance[to] = @ + amount]

mintWithYield(s, caller, to, amount, t) ==
    LET yieldAmount == (amount * 20) \div 100
        totalAmount == amount + yieldAmount
        s1 == usdcMint(s, USDC, totalAmount)
        s2 == deposit(s1, USDC, amount, to, t)
        s3 == simulateYield(s2, USDC, yieldAmount)
    IN IF caller # OWNER THEN Revert(s)
       ELSE IF ~s2.ok THEN Revert(s)
       ELSE IF ~s3.ok THEN Revert(s)
       ELSE s3

\* ------------------------------------------------------------------------
\* StreamingWallet, Model A (src/unnamed/part_001)
\* ------------------------------------------------------------------------
NoSession ==
    [isActive |-> FALSE, startTime |-> 0, accumulatedTime |-> 0,
     lastUpdateTime |-> 0]
NoContent == [fullPrice |-> 0, totalDuration |-> 0, isListed |-> FALSE]

_calculatePayment(consumedDuration, fullPrice, totalDuration) ==
    (fullPrice * consumedDuration) \div totalDuration

\* startStream: ok = FALSE when it reverts, else the session as written
startStream_noActiveCheck(session, content, t) ==
    IF ~content.isListed
    THEN [ok |-> FALSE, session |-> session]
    ELSE [ok |-> TRUE,
          session |-> [session EXCEPT !.isActive = TRUE, !.startTime = t,
                                      !.lastUpdateTime = t]]

startStream_resets(session, content, t) ==
    IF ~content.isListed \/ session.isActive
    THEN [ok |-> FALSE, session |-> session]
    ELSE [ok |-> TRUE,
          session |-> [session EXCEPT !.isActive = TRUE, !.startTime = t,
                                      !.accumulatedTime = 0,
                                      !.lastUpdateTime = t]]

startStream(session, content, t) ==
    IF ~content.isListed \/ session.isActive
    THEN [ok |-> FALSE, session |-> session]
    ELSE [ok |-> TRUE,
          session |-> [session EXCEPT !.isActive = TRUE, !.startTime = t,
                                      !.lastUpdateTime = t]]

pauseStream(session, t) ==
    LET elapsedTime == t - session.lastUpdateTime
    IN IF ~session.isActive
       THEN [ok |-> FALSE, session |-> session]
       ELSE [ok |-> TRUE,
             session |-> [session EXCEPT !.isActive = FALSE,
                                         !.accumulatedTime = @ + elapsedTime,
                                         !.lastUpdateTime = t]]

\* the consumed time stopStream and getCurrentCost compute
totalConsumedTime(session, t) ==
    IF session.isActive
    THEN session.accumulatedTime + (t - session.lastUpdateTime)
    ELSE session.accumulatedTime

\* a projection that leaves out the time of the running interval
getCurrentCost_accumulatedOnly(records, contents, user, contentId, t) ==
    LET session == records[user][contentId]
        content == contents[contentId]
    IN IF ~content.isListed \/ session.lastUpdateTime = 0
       THEN 0
       ELSE _calculatePayment(session.accumulatedTime,
                              content.fullPrice, content.totalDuration)

getCurrentCost(records, contents, user, contentId, t) ==
    LET session == records[user][contentId]
        content == contents[contentId]
    IN IF ~content.isListed \/ session.lastUpdateTime = 0
       THEN 0
       ELSE _calculatePayment(totalConsumedTime(session, t),
                              content.fullPrice, content.totalDuration)

\* a settlement that keeps the yield part when the principal part fails
_deductPayment_partial(s, user, amount, approved, t) ==
    CHOOSE r \in
        {LET remainingAmount == amount - userYield
             s1 == IF userYield > 0
                   THEN withdraw(s, WALLET, userYield, user, user, approved, t)
                   ELSE s
             s2 == CHOOSE r2 \in {withdraw(x, WALLET, remainingAmount, user,
                                           user, approved, t) : x \in {s1}} : TRUE
         IN IF amount <= userYield
            THEN withdraw(s, WALLET, amount, user, user, approved, t)
            ELSE IF ~s1.ok THEN Revert(s)
            ELSE IF s2.ok THEN s2 ELSE s1
         : userYield \in {yieldOf(s, user, t)}} : TRUE

\* a settlement that withdraws the whole amount after the yield
_deductPayment_fullAfterYield(s, user, amount, approved, t) ==
    CHOOSE r \in
        {LET s1 == IF userYield > 0
                   THEN withdraw(s, WALLET, userYield, user, user, approved, t)
                   ELSE s
         IN IF amount <= userYield
            THEN withdraw(s, WALLET, amount, user, user, approved, t)
            ELSE IF ~s1.ok THEN Revert(s)
            ELSE CHOOSE r2 \in {withdraw(x, WALLET, amount, user, user,
                                         approved, t) : x \in {s1}} : TRUE
         : userYield \in {yieldOf(s, user, t)}} : TRUE

\* userYield is read once; the second withdrawal acts on the storage the
\* first one left
_deductPayment(s, user, amount, approved, t) ==
    CHOOSE r \in
        {LET remainingAmount == amount - userYield
             s1 == IF userYield > 0
                   THEN withdraw(s, WALLET, userYield, user, user, approved, t)
                   ELSE s
         IN IF amount <= userYield
            THEN withdraw(s, WALLET, amount, user, user, approved, t)
            ELSE IF ~s1.ok THEN Revert(s)
            ELSE CHOOSE r2 \in {withdraw(x, WALLET, remainingAmount, user,
                                         user, approved, t) : x \in {s1}} : TRUE
         : userYield \in {yieldOf(s, user, t)}} : TRUE

\* the number of vault.withdraw calls _deductPayment issues for `amount`
withdrawCalls(s, user, amount, t) ==
    LET userYield == yieldOf(s, user, t)
    IN IF amount <= userYield THEN 1
       ELSE IF userYield > 0 THEN 2 ELSE 1

\* a stop that swallows a failed settlement
stopStream_swallow(s, records, contents, user, contentId, approved, t) ==
    LET session == records[user][contentId]
        content == contents[contentId]
        consumed == totalConsumedTime(session, t)
        paymentAmount ==
            _calculatePayment(consumed, content.fullPrice, content.totalDuration)
        r == _deductPayment(s, user, paymentAmount, approved, t)
    IN IF ~content.isListed THEN Revert(s)
       ELSE IF ~(session.lastUpdateTime > 0) THEN Revert(s)
       ELSE IF consumed = 0 THEN s
       ELSE IF paymentAmount > 0 THEN (IF r.ok THEN r ELSE s)
       ELSE s

\* a stop that rejects a session without consumption
stopStream_rejectsZero(s, records, contents, user, contentId, approved, t) ==
    LET session == records[user][contentId]
        content == contents[contentId]
        consumed == totalConsumedTime(session, t)
        paymentAmount ==
            _calculatePayment(consumed, content.fullPrice, content.totalDuration)
    IN IF ~content.isListed THEN Revert(s)
       ELSE IF ~(session.lastUpdateTime > 0) THEN Revert(s)
       ELSE IF consumed = 0 THEN Revert(s)
       ELSE IF paymentAmount > 0
            THEN _deductPayment(s, user, paymentAmount, approved, t)
            ELSE s

\* a stop that does not require the session to have been started
stopStream_noStartedCheck(s, records, contents, user, contentId, approved, t) ==
    LET session == records[user][contentId]
        content == contents[contentId]
        consumed == totalConsumedTime(session, t)
        paymentAmount ==
            _calculatePayment(consumed, content.fullPrice, content.totalDuration)
    IN IF ~content.isListed THEN Revert(s)
       ELSE IF consumed = 0 THEN s
       ELSE IF paymentAmount > 0
            THEN _deductPayment(s, user, paymentAmount, approved, t)
            ELSE s

\* the ledger after stopStream(contentId) by user; ok = FALSE when it reverts
stopStream(s, records, contents, user, contentId, approved, t) ==
    LET session == records[user][contentId]
        content == contents[contentId]
        consumed == totalConsumedTime(session, t)
        paymentAmount ==
            _calculatePayment(consumed, content.fullPrice, content.totalDuration)
    IN IF ~content.isListed THEN Revert(s)
       ELSE IF ~(session.lastUpdateTime > 0) THEN Revert(s)
       ELSE IF consumed = 0 THEN s
       ELSE IF paymentAmount > 0
            THEN _deductPayment(s, user, paymentAmount, approved, t)
            ELSE s

\* ------------------------------------------------------------------------
\* StreamingWalletV2, Model B (src/unnamed/part_002)
\* ------------------------------------------------------------------------
NoSessionV2 ==
    [user |-> ZERO, contentId |-> "0x0", pricePerSecond |-> 0,
     consumedSec |-> 0, status |-> "IDLE", startTime |-> 0, pausedAt |-> 0]

\* the storage of StreamingWalletV2 as a record; ok = FALSE marks a revert
WalletV2 ==
    [ok |-> TRUE, _sessionCounter |-> _sessionCounter, sessions |-> sessions,
     userActiveSessions |-> userActiveSessions]

startSession(w, caller, contentId, pricePerSecond, t) ==
    LET sessionId == w._sessionCounter + 1
    IN IF contentId = "0x0" THEN Revert(w)
       ELSE IF ~(pricePerSecond > 0) THEN Revert(w)
       ELSE [w EXCEPT
               !._sessionCounter = sessionId,
               !.sessions[sessionId] =
                   [user |-> caller, contentId |-> contentId,
                    pricePerSecond |-> pricePerSecond, consumedSec |-> 0,
                    status |-> "PLAYING", startTime |-> t, pausedAt |-> 0],
               !.userActiveSessions[caller] = Append(@, sessionId)]

\* a pause that any account may issue
pauseSession_anyCaller(w, caller, sessionId, t) ==
    LET session == w.sessions[sessionId]
        elapsedSec == t - session.startTime
    IN IF session.status # "PLAYING" THEN Revert(w)
       ELSE [w EXCEPT !.sessions[sessionId] =
                [session EXCEPT !.consumedSec = @ + elapsedSec,
                                !.status = "PAUSED",
                                !.pausedAt = t,
                                !.startTime = 0]]

pauseSession(w, caller, sessionId, t) ==
    LET session == w.sessions[sessionId]
        elapsedSec == t - session.startTime
    IN IF session.user # caller THEN Revert(w)
       ELSE IF session.status # "PLAYING" THEN Revert(w)
       ELSE [w EXCEPT !.sessions[sessionId] =
                [session EXCEPT !.consumedSec = @ + elapsedSec,
                                !.status = "PAUSED",
                                !.pausedAt = t,
                                !.startTime = 0]]

\* a resume that does not look at the status
resumeSession_anyStatus(w, caller, sessionId, t) ==
    LET session == w.sessions[sessionId]
    IN IF session.user # caller THEN Revert(w)
       ELSE [w EXCEPT !.sessions[sessionId] =
                [session EXCEPT !.status = "PLAYING",
                                !.startTime = t,
                                !.pausedAt = 0]]

resumeSession(w, caller, sessionId, t) ==
    LET session == w.sessions[sessionId]
    IN IF session.user # caller THEN Revert(w)
       ELSE IF session.status # "PAUSED" THEN Revert(w)
       ELSE [w EXCEPT !.sessions[sessionId] =
                [session EXCEPT !.status = "PLAYING",
                                !.startTime = t,
                                !.pausedAt = 0]]

\* a clock that keeps running while the session is paused
getCurrentConsumedTime_wallClock(session, t) ==
    IF session.status = "PLAYING"
    THEN session.consumedSec + (t - session.startTime)
    ELSE IF session.status = "PAUSED"
         THEN session.consumedSec + (t - session.pausedAt)
         ELSE session.consumedSec

getCurrentConsumedTime(session, t) ==
    IF session.status = "PLAYING"
    THEN session.consumedSec + (t - session.startTime)
    ELSE session.consumedSec

\* stopSession: the consumed time the charge is computed from
finalConsumedSec(session, consumedSec, t) ==
    LET internal == IF session.status = "PLAYING"
                    THEN session.consumedSec + (t - session.startTime)
                    ELSE session.consumedSec
    IN IF consumedSec > 0 /\ consumedSec >= session.consumedSec
       THEN consumedSec
       ELSE internal

\* a charge that truncates to the unit of 1000
amountToPay_truncating(consumed, pricePerSecond) ==
    ((consumed * pricePerSecond) \div 1000) * 1000

\* (consumed * pricePerSecond + 999) / 1000 * 1000
amountToPay(consumed, pricePerSecond) ==
    ((consumed * pricePerSecond + 999) \div 1000) * 1000

getCurrentAmountOwed(session, t) ==
    ((getCurrentConsumedTime(session, t) * session.pricePerSecond + 999)
        \div 1000) * 1000

\* a settlement whose failure is swallowed
_processPayment_swallow(s, user, amount, approved, t) ==
    LET r == withdraw(s, WALLET, amount, WALLET, user, approved, t)
    IN IF r.ok THEN r ELSE s

\* vault.withdraw(amount, address(this), user); a failure reverts the call
_processPayment(s, user, amount, approved, t) ==
    LET r == withdraw(s, WALLET, amount, WALLET, user, approved, t)
    IN IF r.ok THEN r ELSE Revert(s)

\* a removal that pops the last element whatever it is
_removeFromActiveSessions_popLast(activeSessions, sessionId) ==
    IF \E i \in 1..Len(activeSessions) : activeSessions[i] = sessionId
    THEN SubSeq(activeSessions, 1, Len(activeSessions) - 1)
    ELSE activeSessions

\* the first occurrence is overwritten by the last element, which is popped
_removeFromActiveSessions(activeSessions, sessionId) ==
    LET found == {i \in 1..Len(activeSessions) :
                    activeSessions[i] = sessionId}
    IN IF found = {} THEN activeSessions
       ELSE LET i == CHOOSE j \in found : \A k \in found : j <= k
                moved == [activeSessions EXCEPT
                            ![i] = activeSessions[Len(activeSessions)]]
            IN SubSeq(moved, 1, Len(activeSessions) - 1)

\* stopSession: ok = FALSE when the call reverts, else the wallet storage
\* (v2) and the ledger as the call leaves them
stopSession(w, s, caller, sessionId, consumedSec, approved, t) ==
    LET session == w.sessions[sessionId]
        final == finalConsumedSec(session, consumedSec, t)
        amount == amountToPay(final, session.pricePerSecond)
        stopped == [session EXCEPT !.consumedSec = final,
                                   !.status = "STOPPED",
                                   !.startTime = 0,
                                   !.pausedAt = 0]
    IN IF session.user # caller
       THEN [ok |-> FALSE, v2 |-> w, ledger |-> s]
       ELSE IF session.status \notin {"PLAYING", "PAUSED"}
            THEN [ok |-> FALSE, v2 |-> w, ledger |-> s]
       ELSE CHOOSE out \in
            {IF ~paid.ok
             THEN [ok |-> FALSE, v2 |-> w, ledger |-> s]
             ELSE [ok |-> TRUE,
                   v2 |-> [w EXCEPT
                            !.sessions[sessionId] = stopped,
                            !.userActiveSessions[caller] =
                                _removeFromActiveSessions(@, sessionId)],
                   ledger |-> paid]
             : paid \in {IF amount > 0
                         THEN _processPayment(s, caller, amount, approved, t)
                         ELSE s}} : TRUE

\* ReentrancyGuard: the two values of _status
NOT_ENTERED == "NOT_ENTERED"
ENTERED == "ENTERED"

\* a modifier that lets every call in
nonReentrant_off(status, r) == r

\* the nonReentrant modifier on entry: a call made while _status is ENTERED
\* reverts; r is the outcome of the body
nonReentrant(status, r) == IF status = ENTERED THEN Revert(r) ELSE r

\* no call of stopSession is waiting for vault.withdraw to return
NoFrame ==
    [open |-> FALSE, caller |-> ZERO, sessionId |-> 0, amount |-> 0,
     nested |-> 0, saved |-> <<>>]

\* stopSession up to its external call: the requirements, and the session as it
\* is written before vault.withdraw is called
stopSessionEntered(w, caller, sessionId, consumedSec, t) ==
    LET session == w.sessions[sessionId]
        final == finalConsumedSec(session, consumedSec, t)
    IN IF session.user # caller THEN Revert(w)
       ELSE IF session.status \notin {"PLAYING", "PAUSED"} THEN Revert(w)
       ELSE [w EXCEPT !.sessions[sessionId] =
                [session EXCEPT !.consumedSec = final,
                                !.status = "STOPPED",
                                !.startTime = 0,
                                !.pausedAt = 0]]

\* ------------------------------------------------------------------------
\* The src/blockchain deployment: MockUSDC, YieldVault (ERC4626 with a
\* principal mapping) and StreamingWallet.  c is the storage of the three
\* contracts as one record; c.ok = FALSE marks a reverted call.
\* ------------------------------------------------------------------------
CREATOR == "creator"
NoContent_bc ==
    [contentId |-> ZERO, fullPrice |-> 0, totalDuration |-> 0,
     creator |-> ZERO]
NoSession_bc ==
    [contentId |-> ZERO, startTime |-> 0, lastUpdateTime |-> 0,
     accumulatedTime |-> 0, isActive |-> FALSE]

\* MockUSDC.transferFrom(from, to, amount) with the vault as spender
transferFrom_bc(c, from, to, amount) ==
    IF ~c.assetApproved[from] \/ c.assetBalance[from] < amount
    THEN Revert(c)
    ELSE [c EXCEPT !.assetBalance =
            [a \in DOMAIN @ |->
                @[a] - (IF a = from THEN amount ELSE 0)
                     + (IF a = to THEN amount ELSE 0)]]

\* ERC4626 previews with totalAssets() = asset.balanceOf(vault)
previewDeposit(c, assets) ==
    mulDiv(assets, c.totalSupply + 1, c.assetBalance[VAULT] + 1, FALSE)
previewWithdraw(c, assets) ==
    mulDiv(assets, c.totalSupply + 1, c.assetBalance[VAULT] + 1, TRUE)
previewRedeem(c, shares) ==
    mulDiv(shares, c.assetBalance[VAULT] + 1, c.totalSupply + 1, FALSE)

_setupPresetUser(c, presetUser) ==
    LET userBalance == c.assetBalance[presetUser]
        depositAmount == (userBalance * 40) \div 100
        yieldAmount == (depositAmount * 20) \div 100
        c1 == transferFrom_bc(c, presetUser, VAULT, depositAmount)
        shares == previewDeposit(c1, depositAmount)
        c2 == [c1 EXCEPT !.principalOf[presetUser] = depositAmount,
                         !.balanceOf[presetUser] = @ + shares,
                         !.totalSupply = @ + shares]
        c3 == transferFrom_bc(c2, presetUser, VAULT, yieldAmount)
    IN IF userBalance > 0
       THEN IF c1.ok /\ c3.ok THEN c3 ELSE Revert(c)
       ELSE c

setupUser(c, caller, user) ==
    IF caller # "owner" THEN Revert(c) ELSE _setupPresetUser(c, user)

yieldOf_bc(c, user) ==
    LET totalUserAssets == previewRedeem(c, c.balanceOf[user])
    IN IF totalUserAssets <= c.principalOf[user] THEN 0
       ELSE totalUserAssets - c.principalOf[user]

addMockYield(c, caller, amount) ==
    IF caller # "owner" THEN Revert(c)
    ELSE transferFrom_bc(c, caller, VAULT, amount)

\* the vault's _deposit override, then ERC4626._deposit
_deposit_bc(c, caller, receiver, assets, shares) ==
    LET c1 == [c EXCEPT !.principalOf[receiver] = @ + assets]
        c2 == transferFrom_bc(c1, caller, VAULT, assets)
    IN IF c2.ok
       THEN [c2 EXCEPT !.balanceOf[receiver] = @ + shares,
                       !.totalSupply = @ + shares]
       ELSE Revert(c)

\* ERC4626.deposit
deposit_bc(c, caller, assets, receiver) ==
    _deposit_bc(c, caller, receiver, assets, previewDeposit(c, assets))

\* the vault's _withdraw override (the principal shrinks in proportion to
\* the assets leaving), then ERC4626._withdraw: spend the share allowance,
\* burn, push the asset
_withdraw_bc(c, caller, receiver, owner, assets, shares) ==
    LET totalUserAssetsBefore == previewRedeem(c, c.balanceOf[owner])
        c1 == IF assets >= totalUserAssetsBefore
              THEN [c EXCEPT !.principalOf[owner] = 0]
              ELSE [c EXCEPT !.principalOf[owner] =
                        (@ * (totalUserAssetsBefore - assets))
                            \div totalUserAssetsBefore]
    IN IF caller # owner /\ ~(caller = WALLET /\ c.walletApproved[owner])
       THEN Revert(c)
       ELSE IF c1.balanceOf[owner] < shares \/ c1.assetBalance[VAULT] < assets
            THEN Revert(c)
       ELSE [c1 EXCEPT !.balanceOf[owner] = @ - shares,
                       !.totalSupply = @ - shares,
                       !.assetBalance =
                           [a \in DOMAIN @ |->
                               @[a] - (IF a = VAULT THEN assets ELSE 0)
                                    + (IF a = receiver THEN assets ELSE 0)]]

\* ERC4626.withdraw
withdraw_bc(c, caller, assets, receiver, owner) ==
    IF assets > previewRedeem(c, c.balanceOf[owner])
    THEN Revert(c)
    ELSE _withdraw_bc(c, caller, receiver, owner, assets,
                      previewWithdraw(c, assets))

\* StreamingWallet of src/blockchain
listContent(c, caller, _contentId, _fullPrice, _totalDuration, _creator) ==
    IF caller # "owner" \/ _contentId = ZERO \/ _totalDuration <= 0
         \/ _creator = ZERO
    THEN Revert(c)
    ELSE [c EXCEPT !.contents[_contentId] =
            [contentId |-> _contentId, fullPrice |-> _fullPrice,
             totalDuration |-> _totalDuration, creator |-> _creator]]

startStream_bc(c, user, _contentId, t) ==
    LET session == c.userSessions[user][_contentId]
    IN IF c.contents[_contentId].contentId = ZERO THEN Revert(c)
       ELSE IF session.isActive THEN c
       ELSE [c EXCEPT !.userSessions[user][_contentId] =
                [contentId |-> IF session.startTime = 0 THEN _contentId
                               ELSE session.contentId,
                 startTime |-> IF session.startTime = 0 THEN t
                               ELSE session.startTime,
                 lastUpdateTime |-> t,
                 accumulatedTime |-> session.accumulatedTime,
                 isActive |-> TRUE]]

pauseStream_bc(c, user, _contentId, t) ==
    LET session == c.userSessions[user][_contentId]
    IN IF ~session.isActive THEN Revert(c)
       ELSE [c EXCEPT !.userSessions[user][_contentId] =
                [session EXCEPT
                    !.accumulatedTime = @ + (t - session.lastUpdateTime),
                    !.isActive = FALSE,
                    !.lastUpdateTime = t]]

_calculatePayment_bc(content, _timeConsumed) ==
    IF _timeConsumed >= content.totalDuration
    THEN content.fullPrice
    ELSE (content.fullPrice * _timeConsumed) \div content.totalDuration

_deductPayment_bc(c, _user, _contentId, _amount) ==
    LET creator == c.contents[_contentId].creator
        availableYield == yieldOf_bc(c, _user)
        c1 == CHOOSE x \in {IF availableYield > 0
                            THEN withdraw_bc(c, WALLET, availableYield,
                                             creator, _user)
                            ELSE c} : TRUE
    IN IF availableYield >= _amount
       THEN withdraw_bc(c, WALLET, _amount, creator, _user)
       ELSE IF ~c1.ok THEN Revert(c)
            ELSE CHOOSE x \in {withdraw_bc(c1, WALLET,
                                           _amount - availableYield,
                                           creator, _user)} : TRUE

\* totalTimeConsumed of stopStream
totalTimeConsumed(session, t) ==
    session.accumulatedTime
        + (IF session.isActive THEN t - session.lastUpdateTime ELSE 0)

stopStream_bc(c, user, _contentId, t) ==
    LET session == c.userSessions[user][_contentId]
        paymentAmount == _calculatePayment_bc(c.contents[_contentId],
                                              totalTimeConsumed(session, t))
        c1 == CHOOSE x \in {IF paymentAmount > 0
                            THEN _deductPayment_bc(c, user, _contentId,
                                                   paymentAmount)
                            ELSE c} : TRUE
    IN IF session.startTime <= 0 THEN Revert(c)
       ELSE IF ~c1.ok THEN Revert(c)
       ELSE [c1 EXCEPT !.userSessions[user][_contentId] = NoSession_bc]

\* ------------------------------------------------------------------------
\* Initial state: the contracts are deployed, nothing is listed, every user
\* holds InitialFunds of the asset and has approved the vault to pull it
\* ------------------------------------------------------------------------
\* ------------------------------------------------------------------------
\* Backend session service (src/backend/src/services/session.service.ts over
\* the database service of src/unnamed/part_018).  A request is served by an
\* async handler: every await is a point where another handler may run.
\* ------------------------------------------------------------------------
Requests == {"r1", "r2"}
NoRequest ==
    [op |-> "-", pc |-> "idle", userAddress |-> "-", contentId |-> "-",
     sessionId |-> 0, statusCode |-> 0]

\* the server is up, the session table is empty
backendIdle ==
    /\ dbSessions = <<>>
    /\ requests = [r \in Requests |-> NoRequest]
    /\ served = 0

\* database.hasActiveSession: prisma.session.findFirst over the rows
hasActiveSession(rows, userAddress, contentId) ==
    \E i \in DOMAIN rows :
        /\ rows[i].userAddress = userAddress
        /\ rows[i].contentId = contentId
        /\ rows[i].status \in {"ACTIVE", "PAUSED"}

\* database.createSession: prisma.session.create appends a row; the
\* generated sessionId is fresh
createSession(rows, userAddress, contentId) ==
    Append(rows, [sessionId |-> Len(rows) + 1, userAddress |-> userAddress,
                  contentId |-> contentId, status |-> "ACTIVE"])

\* database.updateSession(sessionId, {status})
updateSession(rows, sessionId, status) ==
    [rows EXCEPT ![sessionId].status = status]

\* src/blockchain right after scripts/deployAll.ts: no balances, nothing
\* approved, nothing listed
BcAccounts == Users \cup {VAULT, CREATOR, OWNER}
chainDeployed ==
    [ok |-> TRUE,
     assetBalance |-> [a \in BcAccounts |-> 0],
     assetApproved |-> [a \in BcAccounts |-> FALSE],
     balanceOf |-> [u \in Users |-> 0],
     totalSupply |-> 0,
     principalOf |-> [u \in Users |-> 0],
     walletApproved |-> [u \in Users |-> FALSE],
     contents |-> [k \in Contents |-> NoContent_bc],
     userSessions |-> [u \in Users |-> [k \in Contents |-> NoSession_bc]]]

\* src/blockchain after onboarding: the demo content is listed, every user
\* minted BcFunds of the asset (MockUSDC.mint is public) and approved the
\* vault for it, the owner minted the yield it will add and approved the
\* vault; a user may or may not have approved the wallet for its shares
chainOnboarded ==
    {[chainDeployed EXCEPT
        !.assetBalance = [a \in BcAccounts |->
                            IF a \in Users THEN BcFunds
                            ELSE IF a = OWNER THEN BcYield ELSE 0],
        !.assetApproved = [a \in BcAccounts |-> a \in Users \cup {OWNER}],
        !.walletApproved = approvals,
        !.contents = [k \in Contents |->
                        [contentId |-> k, fullPrice |-> BcListing[1],
                         totalDuration |-> BcListing[2],
                         creator |-> CREATOR]]]
       : approvals \in [Users -> BOOLEAN]}

Call(op, user, amount, contentId, ok) ==
    [op |-> op, user |-> user, amount |-> amount, contentId |-> contentId,
     ok |-> ok]

\* the observers after a call
Record(op, user, amount, contentId, ok) ==
    /\ last' = Call(op, user, amount, contentId, ok)
    /\ nonce' = IF ok THEN nonce + 1 ELSE nonce

\* StreamingWalletV2 after construction: no session was opened
NoSessionsYet ==
    /\ _sessionCounter = 0
    /\ sessions = [id \in 1..MaxSessions |-> NoSessionV2]
    /\ userActiveSessions = [u \in Users |-> <<>>]
    /\ playingTime = [id \in 1..MaxSessions |-> 0]
    /\ lastId = 0
    /\ _status = NOT_ENTERED
    /\ callFrame = NoFrame

contractsDeployed ==
    /\ now = GenesisTime
    /\ nonce = 0
    /\ usdcBalance = [a \in Users \cup {VAULT, USDC} |->
                        IF a \in Users THEN InitialFunds ELSE 0]
    /\ principalOf = [u \in Users |-> 0]
    /\ totalPrincipal = 0
    /\ apyBasisPoints = InitialAPY
    /\ lastYieldUpdate = GenesisTime
    /\ accumulatedYieldPerShare = ZeroIndex
    /\ yieldDebt = [u \in Users |-> 0]
    /\ balanceOf = [u \in Users |-> 0]
    /\ totalSupply = 0
    /\ walletApproved = [u \in Users |-> FALSE]
    /\ userSessions = [u \in Users |-> [c \in Contents |-> NoSession]]
    /\ contentInfo = [c \in Contents |-> NoContent]
    /\ playedTime = [u \in Users |-> [c \in Contents |-> 0]]
    /\ last = Call("deploy", OWNER, 0, "-", TRUE)
    /\ NoSessionsYet

Init ==
    /\ contractsDeployed
    /\ chain = chainDeployed
    /\ backendIdle

\* The state the deployment script leaves: the demo content is listed and
\* every demo account received mintWithYield(account, DemoDeposit)
\* the loop over the demo accounts, in the order of the script; each call
\* acts on the storage the previous one left
demoAccounts(s) ==
    CHOOSE r \in {mintWithYield(x, OWNER, "bob", DemoDeposit, GenesisTime) :
                    x \in {mintWithYield(s, OWNER, "alice", DemoDeposit,
                                         GenesisTime)}} : TRUE

InitDeployed ==
    /\ now = GenesisTime
    /\ nonce = 0
    /\ \E d \in {demoAccounts(
                [ok |-> TRUE,
                 usdcBalance |-> [a \in Users \cup {VAULT, USDC} |->
                                    IF a \in Users THEN InitialFunds ELSE 0],
                 principalOf |-> [u \in Users |-> 0],
                 totalPrincipal |-> 0,
                 apyBasisPoints |-> InitialAPY,
                 lastYieldUpdate |-> GenesisTime,
                 accumulatedYieldPerShare |-> ZeroIndex,
                 yieldDebt |-> [u \in Users |-> 0],
                 balanceOf |-> [u \in Users |-> 0],
                 totalSupply |-> 0])} :
          /\ usdcBalance = d.usdcBalance
          /\ principalOf = d.principalOf
          /\ totalPrincipal = d.totalPrincipal
          /\ apyBasisPoints = d.apyBasisPoints
          /\ lastYieldUpdate = d.lastYieldUpdate
          /\ accumulatedYieldPerShare = d.accumulatedYieldPerShare
          /\ yieldDebt = d.yieldDebt
          /\ balanceOf = d.balanceOf
          /\ totalSupply = d.totalSupply
    /\ walletApproved = [u \in Users |-> FALSE]
    /\ userSessions = [u \in Users |-> [c \in Contents |-> NoSession]]
    /\ contentInfo = [c \in Contents |->
                        IF c = DemoContent
                        THEN [fullPrice |-> DemoListing[1],
                              totalDuration |-> DemoListing[2],
                              isListed |-> TRUE]
                        ELSE NoContent]
    /\ playedTime = [u \in Users |-> [c \in Contents |-> 0]]
    /\ last = Call("deploy", OWNER, 0, "-", TRUE)
    /\ NoSessionsYet
    /\ chain = chainDeployed
    /\ backendIdle

\* The state the Model B test set-up leaves: alice and bob deposited
\* AliceDeposit and BobDeposit and approved the streaming wallet for their
\* shares; the wallet holds no asset yet
setUpDeposits(s) ==
    CHOOSE r \in {deposit(x, "bob", BobDeposit, "bob", GenesisTime) :
                    x \in {deposit(s, "alice", AliceDeposit, "alice",
                                   GenesisTime)}} : TRUE

setUp ==
    /\ now = GenesisTime
    /\ nonce = 0
    /\ \E d \in {setUpDeposits(
                [ok |-> TRUE,
                 usdcBalance |-> [a \in Users \cup {VAULT, USDC, WALLET} |->
                                    IF a = "alice"
                                    THEN InitialFunds + AliceDeposit
                                    ELSE IF a = "bob"
                                         THEN InitialFunds + BobDeposit
                                         ELSE 0],
                 principalOf |-> [u \in Users |-> 0],
                 totalPrincipal |-> 0,
                 apyBasisPoints |-> InitialAPY,
                 lastYieldUpdate |-> GenesisTime,
                 accumulatedYieldPerShare |-> ZeroIndex,
                 yieldDebt |-> [u \in Users |-> 0],
                 balanceOf |-> [u \in Users |-> 0],
                 totalSupply |-> 0])} :
          /\ usdcBalance = d.usdcBalance
          /\ principalOf = d.principalOf
          /\ totalPrincipal = d.totalPrincipal
          /\ apyBasisPoints = d.apyBasisPoints
          /\ lastYieldUpdate = d.lastYieldUpdate
          /\ accumulatedYieldPerShare = d.accumulatedYieldPerShare
          /\ yieldDebt = d.yieldDebt
          /\ balanceOf = d.balanceOf
          /\ totalSupply = d.totalSupply
    /\ walletApproved = [u \in Users |-> TRUE]
    /\ userSessions = [u \in Users |-> [c \in Contents |-> NoSession]]
    /\ contentInfo = [c \in Contents |-> NoContent]
    /\ playedTime = [u \in Users |-> [c \in Contents |-> 0]]
    /\ last = Call("setUp", OWNER, 0, "-", TRUE)
    /\ NoSessionsYet
    /\ chain = chainDeployed
    /\ backendIdle

\* ------------------------------------------------------------------------
\* Actions: one per external call
\* ------------------------------------------------------------------------
SumUSDC == LET RECURSIVE Sum(_)
               Sum(S) == IF S = {} THEN 0
                         ELSE LET a == CHOOSE x \in S : TRUE
                              IN usdcBalance[a] + Sum(S \ {a})
           IN Sum(DOMAIN usdcBalance)

\* block.timestamp moves on by d seconds
Advance(d, horizon) ==
    /\ now + d <= GenesisTime + horizon
    /\ now' = now + d
    /\ playedTime' = [u \in Users |-> [c \in Contents |->
            IF userSessions[u][c].isActive
            THEN playedTime[u][c] + d ELSE playedTime[u][c]]]
    /\ last' = Call("advance", OWNER, d, "-", TRUE)
    /\ playingTime' = [id \in DOMAIN sessions |->
            IF sessions[id].status = "PLAYING"
            THEN playingTime[id] + d ELSE playingTime[id]]
    /\ UNCHANGED <<extVars, nonce, ledgerVars, walletApproved, walletVars, v2Vars,
                   lastId, guardVars>>

AdvanceYears == Advance(HalfYear, MaxHalfYears * HalfYear)
AdvanceSeconds == Advance(1, MaxSeconds)
AdvanceYear == Advance(SECONDS_PER_YEAR, MaxYears * SECONDS_PER_YEAR)
AdvanceSecondsV2 == Advance(1, MaxV2Seconds)

Deposit(caller, assets, receiver) ==
    \E r \in {deposit(Ledger, caller, assets, receiver, now)} :
       /\ Commit(r)
       /\ Record("deposit", receiver, assets, "-", r.ok)
       /\ UNCHANGED <<extVars, now, walletApproved, walletVars, playedTime,
                      modelBVars>>

DepositCall ==
    \E receiver \in Users, assets \in DepositAmounts :
        Deposit(receiver, assets, receiver)

Withdraw(caller, assets, receiver, owner) ==
    \E r \in {withdraw(Ledger, caller, assets, receiver, owner,
                      walletApproved, now)} :
       /\ Commit(r)
       /\ Record("withdraw", owner, assets, "-", r.ok)
       /\ UNCHANGED <<extVars, now, walletApproved, walletVars, playedTime,
                      modelBVars>>

WithdrawCall ==
    \E caller \in Users, owner \in Users, assets \in WithdrawAmounts :
        Withdraw(caller, assets, owner, owner)

MintWithYield(caller, to, amount) ==
    \E r \in {mintWithYield(Ledger, caller, to, amount, now)} :
       /\ SumUSDC + amount + ((amount * 20) \div 100)
            <= Cardinality(Users) * InitialFunds + MaxMinted
       /\ Commit(r)
       /\ Record("mintWithYield", to, amount, "-", r.ok)
       /\ UNCHANGED <<extVars, now, walletApproved, walletVars, playedTime,
                      modelBVars>>

MintWithYieldCall ==
    \E caller \in {OWNER} \cup Users, to \in Users, amount \in MintAmounts :
        MintWithYield(caller, to, amount)

Mint(caller, shares, receiver) ==
    \E r \in {mint(Ledger, caller, shares, receiver, now)} :
       /\ Commit(r)
       /\ Record("mint", receiver, shares, "-", r.ok)
       /\ UNCHANGED <<extVars, now, walletApproved, walletVars, playedTime,
                      modelBVars>>

MintCall ==
    \E receiver \in Users, shares \in ShareAmounts :
        Mint(receiver, shares, receiver)

Redeem(caller, shares, receiver, owner) ==
    \E r \in {redeem(Ledger, caller, shares, receiver, owner, walletApproved,
                    now)} :
       /\ Commit(r)
       /\ Record("redeem", owner, shares, "-", r.ok)
       /\ UNCHANGED <<extVars, now, walletApproved, walletVars, playedTime,
                      modelBVars>>

RedeemCall ==
    \E owner \in Users, shares \in ShareAmounts :
        Redeem(owner, shares, owner, owner)

\* transfer(to, value) of vault shares by `from`
Transfer(from, to, value) ==
    \E r \in {transfer(Ledger, from, to, value, now)} :
       /\ Commit(r)
       /\ Record("transfer", from, value, "-", r.ok)
       /\ UNCHANGED <<extVars, now, walletApproved, walletVars, playedTime,
                      modelBVars>>

TransferCall ==
    \E from \in Users, to \in Users, value \in ShareAmounts :
        from # to /\ Transfer(from, to, value)

SetAPY(caller, _newAPY) ==
    \E r \in {setAPY(Ledger, caller, _newAPY, now)} :
       /\ Commit(r)
       /\ Record("setAPY", caller, _newAPY, "-", r.ok)
       /\ UNCHANGED <<extVars, now, walletApproved, walletVars, playedTime,
                      modelBVars>>

SetAPYCall ==
    \E caller \in {OWNER, "alice"}, _newAPY \in Rates : SetAPY(caller, _newAPY)

\* MockUSDC.transfer(vault, amount) by `from`: the asset sent to the vault
\* directly, outside deposit
UsdcTransfer(from, amount) ==
    \E r \in {assetTransfer(Ledger, from, VAULT, amount)} :
       /\ Commit(r)
       /\ Record("usdcTransfer", from, amount, "-", r.ok)
       /\ UNCHANGED <<extVars, now, walletApproved, walletVars, playedTime,
                      modelBVars>>

UsdcTransferCall == \E from \in Users : UsdcTransfer(from, InitialFunds)

\* vault.approve(streamingWallet, type(uint256).max) by user
ApproveWallet(user) ==
    /\ walletApproved' = [walletApproved EXCEPT ![user] = TRUE]
    /\ Record("approve", user, 0, "-", TRUE)
    /\ UNCHANGED <<extVars, now, ledgerVars, walletVars, playedTime, modelBVars>>

ApproveWalletCall == \E user \in Users : ApproveWallet(user)

ListContent(caller, contentId, fullPrice, totalDuration) ==
    LET ok == caller = OWNER /\ fullPrice > 0 /\ totalDuration > 0
    IN /\ contentInfo' =
            IF ok
            THEN [contentInfo EXCEPT ![contentId] =
                    [fullPrice |-> fullPrice, totalDuration |-> totalDuration,
                     isListed |-> TRUE]]
            ELSE contentInfo
       /\ Record("listContent", caller, fullPrice, contentId, ok)
       /\ UNCHANGED <<extVars, now, ledgerVars, walletApproved, userSessions,
                      playedTime, modelBVars>>

ListContentCall ==
    \E caller \in {OWNER} \cup Users, contentId \in Contents, l \in Listings :
        ListContent(caller, contentId, l[1], l[2])

StartStream(user, contentId) ==
    LET r == startStream(userSessions[user][contentId], contentInfo[contentId],
                         now)
    IN /\ userSessions' = [userSessions EXCEPT ![user][contentId] = r.session]
       /\ Record("startStream", user, 0, contentId, r.ok)
       /\ UNCHANGED <<extVars, now, ledgerVars, walletApproved, contentInfo,
                      playedTime, modelBVars>>

StartStreamCall ==
    \E user \in Users, contentId \in Contents : StartStream(user, contentId)

PauseStream(user, contentId) ==
    LET r == pauseStream(userSessions[user][contentId], now)
    IN /\ userSessions' = [userSessions EXCEPT ![user][contentId] = r.session]
       /\ Record("pauseStream", user, 0, contentId, r.ok)
       /\ UNCHANGED <<extVars, now, ledgerVars, walletApproved, contentInfo,
                      playedTime, modelBVars>>

PauseStreamCall ==
    \E user \in Users, contentId \in Contents : PauseStream(user, contentId)

\* the amount recorded for a stop is the consumed time it computed
StopStream(user, contentId) ==
    \E r \in {stopStream(Ledger, userSessions, contentInfo, user, contentId,
                        walletApproved, now)},
       consumed \in {totalConsumedTime(userSessions[user][contentId], now)} :
       /\ Commit(r)
       /\ userSessions' =
            IF r.ok THEN [userSessions EXCEPT ![user][contentId] = NoSession]
            ELSE userSessions
       /\ playedTime' =
            IF r.ok THEN [playedTime EXCEPT ![user][contentId] = 0]
            ELSE playedTime
       /\ Record("stopStream", user, consumed, contentId, r.ok)
       /\ UNCHANGED <<extVars, now, walletApproved, contentInfo, modelBVars>>

StopStreamCall ==
    \E user \in Users, contentId \in Contents : StopStream(user, contentId)

\* getCurrentCost(user, contentId): a view call; the amount recorded is the
\* value it returns
GetCurrentCost(user, contentId) ==
    /\ last' = Call("getCurrentCost", user,
                    getCurrentCost(userSessions, contentInfo, user, contentId,
                                   now),
                    contentId, TRUE)
    /\ UNCHANGED <<extVars, now, nonce, ledgerVars, walletApproved, walletVars,
                   playedTime, modelBVars>>

GetCurrentCostCall ==
    \E user \in Users, contentId \in Contents : GetCurrentCost(user, contentId)

\* the call committed: the wallet storage becomes w; it reverted: kept
CommitV2(w) ==
    IF w.ok
    THEN /\ _sessionCounter' = w._sessionCounter
         /\ sessions' = w.sessions
         /\ userActiveSessions' = w.userActiveSessions
    ELSE UNCHANGED v2Vars

\* the sessionId arguments offered: the ids opened so far and the next one,
\* which was never opened
SessionIds == 1..Min(_sessionCounter + 1, MaxSessions)

StartSession(caller, contentId, pricePerSecond) ==
    /\ _sessionCounter < MaxSessions
    /\ \E w \in {startSession(WalletV2, caller, contentId, pricePerSecond,
                             now)} :
          /\ CommitV2(w)
          /\ lastId' = IF w.ok THEN w._sessionCounter ELSE 0
          /\ Record("startSession", caller, pricePerSecond, contentId, w.ok)
    /\ UNCHANGED <<extVars, now, ledgerVars, walletApproved, walletVars,
                   playedTime, playingTime, guardVars>>

StartSessionCall ==
    \E caller \in Users, contentId \in ContentIds, pricePerSecond \in Prices :
        StartSession(caller, contentId, pricePerSecond)

PauseSession(caller, sessionId) ==
    /\ \E w \in {pauseSession(WalletV2, caller, sessionId, now)} :
          /\ CommitV2(w)
          /\ Record("pauseSession", caller, 0, "-", w.ok)
    /\ lastId' = sessionId
    /\ UNCHANGED <<extVars, now, ledgerVars, walletApproved, walletVars,
                   playedTime, playingTime, guardVars>>

PauseSessionCall ==
    \E caller \in Users, sessionId \in SessionIds :
        PauseSession(caller, sessionId)

ResumeSession(caller, sessionId) ==
    /\ \E w \in {resumeSession(WalletV2, caller, sessionId, now)} :
          /\ CommitV2(w)
          /\ Record("resumeSession", caller, 0, "-", w.ok)
    /\ lastId' = sessionId
    /\ UNCHANGED <<extVars, now, ledgerVars, walletApproved, walletVars,
                   playedTime, playingTime, guardVars>>

ResumeSessionCall ==
    \E caller \in Users, sessionId \in SessionIds :
        ResumeSession(caller, sessionId)

\* the amount recorded for a stop is the consumed time the caller reports
StopSession(caller, sessionId, consumedSec) ==
    /\ \E r \in {stopSession(WalletV2, Ledger, caller, sessionId, consumedSec,
                            walletApproved, now)} :
          /\ IF r.ok
             THEN CommitV2(r.v2) /\ Commit(r.ledger)
             ELSE UNCHANGED <<v2Vars, ledgerVars>>
          /\ Record("stopSession", caller, consumedSec, "-", r.ok)
    /\ lastId' = sessionId
    /\ UNCHANGED <<extVars, now, walletApproved, walletVars, playedTime,
                   playingTime, guardVars>>

StopSessionCall ==
    \E caller \in Users, sessionId \in SessionIds,
       consumedSec \in ReportedSecs :
        StopSession(caller, sessionId, consumedSec)

\* ------------------------------------------------------------------------
\* Specifications
\* ------------------------------------------------------------------------
\* the ledger under deposit, withdraw and time
NextDW ==
    \/ nonce < MaxLedgerCalls /\ DepositCall
    \/ nonce < MaxLedgerCalls /\ WithdrawCall
    \/ AdvanceYears
SpecDW == Init /\ [][NextDW]_vars

\* the ledger with yield injection as well
NextVault ==
    \/ nonce < MaxLedgerCalls /\ DepositCall
    \/ nonce < MaxLedgerCalls /\ WithdrawCall
    \/ nonce < MaxLedgerCalls /\ MintWithYieldCall
    \/ AdvanceYears
SpecVault == Init /\ [][NextVault]_vars

\* the Model A session engine on the deployed system
NextA ==
    \/ nonce < MaxSessionCalls /\ ApproveWalletCall
    \/ nonce < MaxSessionCalls /\ StartStreamCall
    \/ nonce < MaxSessionCalls /\ PauseStreamCall
    \/ nonce < MaxSessionCalls /\ StopStreamCall
    \/ AdvanceSeconds
SpecA == InitDeployed /\ [][NextA]_vars

\* the Model A session engine with the catalogue re-listed and the cost
\* polled while sessions run
NextCatalog ==
    \/ nonce < MaxCatalogCalls /\ ApproveWalletCall
    \/ nonce < MaxCatalogCalls /\ StartStreamCall
    \/ nonce < MaxCatalogCalls /\ PauseStreamCall
    \/ nonce < MaxCatalogCalls /\ StopStreamCall
    \/ nonce < MaxCatalogCalls /\ ListContentCall
    \/ GetCurrentCostCall
    \/ AdvanceSeconds
SpecCatalog == InitDeployed /\ [][NextCatalog]_vars

\* the Model B session engine after the test set-up
NextB ==
    \/ nonce < MaxV2Calls /\ StartSessionCall
    \/ nonce < MaxV2Calls /\ PauseSessionCall
    \/ nonce < MaxV2Calls /\ ResumeSessionCall
    \/ nonce < MaxV2Calls /\ StopSessionCall
    \/ AdvanceSecondsV2
SpecB == setUp /\ [][NextB]_vars

\* ------------------------------------------------------------------------
\* Model B call by call, with the external call of stopSession as a step of
\* its own: between StopSessionEnter and StopSessionReturn the callee of
\* vault.withdraw runs and may call back into the wallet
\* ------------------------------------------------------------------------
\* startSession, pauseSession or resumeSession behind the modifier
sessionCall(w, status, op, caller, sessionId, contentId, pricePerSecond, t) ==
    nonReentrant(status,
        CASE op = "startSession" ->
                startSession(w, caller, contentId, pricePerSecond, t)
          [] op = "pauseSession" -> pauseSession(w, caller, sessionId, t)
          [] op = "resumeSession" -> resumeSession(w, caller, sessionId, t))

\* a top-level call of startSession, pauseSession or resumeSession; the
\* modifier resets _status when the body has run
GuardedCall(op, caller, sessionId, contentId, pricePerSecond) ==
    /\ ~callFrame.open
    /\ op = "startSession" => _sessionCounter < MaxSessions
    /\ \E w \in {sessionCall(WalletV2, _status, op, caller, sessionId,
                              contentId, pricePerSecond, now)} :
          /\ CommitV2(w)
          /\ _status' = IF w.ok THEN NOT_ENTERED ELSE _status
          /\ lastId' = IF op = "startSession"
                       THEN (IF w.ok THEN w._sessionCounter ELSE 0)
                       ELSE sessionId
          /\ Record(op, caller, pricePerSecond, contentId, w.ok)
    /\ UNCHANGED <<extVars, now, ledgerVars, walletApproved, walletVars,
                   playedTime, playingTime, callFrame>>

GuardedCallAny ==
    \/ \E caller \in Users, contentId \in ContentIds, pricePerSecond \in Prices :
          GuardedCall("startSession", caller, 0, contentId, pricePerSecond)
    \/ \E op \in {"pauseSession", "resumeSession"}, caller \in Users,
          sessionId \in SessionIds :
          GuardedCall(op, caller, sessionId, "-", 0)

\* stopSession from its entry to vault.withdraw: a call that fails a
\* requirement reverts, a call that owes nothing completes, and any other
\* call has written the session and waits for the vault with _status ENTERED
StopSessionEnter(caller, sessionId, consumedSec) ==
    /\ ~callFrame.open
    /\ \E w \in {nonReentrant(_status,
                     stopSessionEntered(WalletV2, caller, sessionId,
                                        consumedSec, now))},
          amount \in {amountToPay(
                        finalConsumedSec(sessions[sessionId], consumedSec, now),
                        sessions[sessionId].pricePerSecond)} :
          IF ~w.ok
          THEN /\ Record("stopSession", caller, consumedSec, "-", FALSE)
               /\ UNCHANGED <<v2Vars, guardVars>>
          ELSE IF amount = 0
          THEN /\ sessions' = w.sessions
               /\ userActiveSessions' =
                    [userActiveSessions EXCEPT ![caller] =
                        _removeFromActiveSessions(@, sessionId)]
               /\ _status' = NOT_ENTERED
               /\ Record("stopSession", caller, consumedSec, "-", TRUE)
               /\ UNCHANGED <<_sessionCounter, callFrame>>
          ELSE /\ sessions' = w.sessions
               /\ _status' = ENTERED
               /\ callFrame' =
                    [open |-> TRUE, caller |-> caller, sessionId |-> sessionId,
                     amount |-> amount, nested |-> 0,
                     saved |-> [v2 |-> WalletV2, ledger |-> Ledger,
                                status |-> _status,
                                consumedSec |-> consumedSec]]
               /\ last' = Call("stopSession.withdraw", caller, amount, "-",
                               TRUE)
               /\ UNCHANGED <<nonce, _sessionCounter, userActiveSessions>>
    /\ lastId' = sessionId
    /\ UNCHANGED <<extVars, now, ledgerVars, walletApproved, walletVars,
                   playedTime, playingTime>>

StopSessionEnterCall ==
    \E caller \in Users, sessionId \in SessionIds,
       consumedSec \in ReportedSecs :
        StopSessionEnter(caller, sessionId, consumedSec)

\* while vault.withdraw runs, its callee calls startSession, pauseSession or
\* resumeSession of the wallet
NestedCall(op, caller, sessionId, contentId, pricePerSecond) ==
    /\ callFrame.open
    /\ callFrame.nested < MaxNested
    /\ op = "startSession" => _sessionCounter < MaxSessions
    /\ \E w \in {sessionCall(WalletV2, _status, op, caller, sessionId,
                              contentId, pricePerSecond, now)} :
          /\ CommitV2(w)
          /\ _status' = IF w.ok THEN NOT_ENTERED ELSE _status
          /\ last' = Call(op, caller, pricePerSecond, contentId, w.ok)
    /\ callFrame' = [callFrame EXCEPT !.nested = @ + 1]
    /\ UNCHANGED <<extVars, now, nonce, ledgerVars, walletApproved, walletVars,
                   playedTime, playingTime, lastId>>

NestedCallAny ==
    \/ \E caller \in Users, contentId \in ContentIds, pricePerSecond \in Prices :
          NestedCall("startSession", caller, 0, contentId, pricePerSecond)
    \/ \E op \in {"pauseSession", "resumeSession"}, caller \in Users,
          sessionId \in SessionIds :
          NestedCall(op, caller, sessionId, "-", 0)

\* while vault.withdraw runs, its callee calls stopSession of the wallet
NestedStop(caller, sessionId, consumedSec) ==
    /\ callFrame.open
    /\ callFrame.nested < MaxNested
    /\ \E r \in {nonReentrant(_status,
                     stopSession(WalletV2, Ledger, caller, sessionId,
                                 consumedSec, walletApproved, now))} :
          /\ IF r.ok
             THEN CommitV2(r.v2) /\ Commit(r.ledger)
             ELSE UNCHANGED <<v2Vars, ledgerVars>>
          /\ _status' = IF r.ok THEN NOT_ENTERED ELSE _status
          /\ last' = Call("stopSession", caller, consumedSec, "-", r.ok)
    /\ callFrame' = [callFrame EXCEPT !.nested = @ + 1]
    /\ UNCHANGED <<extVars, now, nonce, walletApproved, walletVars,
                   playedTime, playingTime, lastId>>

NestedStopCall ==
    \E caller \in Users, sessionId \in SessionIds,
       consumedSec \in ReportedSecs :
        NestedStop(caller, sessionId, consumedSec)

\* vault.withdraw returns to the waiting stopSession: when it succeeded the
\* session leaves the active list and the modifier resets _status; when it
\* failed the call reverts and the storage is as it was before the call
StopSessionReturn ==
    /\ callFrame.open
    /\ \E paid \in {_processPayment(Ledger, callFrame.caller, callFrame.amount,
                                     walletApproved, now)} :
          IF paid.ok
          THEN /\ Commit(paid)
               /\ userActiveSessions' =
                    [userActiveSessions EXCEPT ![callFrame.caller] =
                        _removeFromActiveSessions(@, callFrame.sessionId)]
               /\ _status' = NOT_ENTERED
               /\ Record("stopSession", callFrame.caller,
                         callFrame.saved.consumedSec, "-", TRUE)
               /\ UNCHANGED <<_sessionCounter, sessions>>
          ELSE /\ CommitV2(callFrame.saved.v2)
               /\ Commit(callFrame.saved.ledger)
               /\ _status' = callFrame.saved.status
               /\ Record("stopSession", callFrame.caller,
                         callFrame.saved.consumedSec, "-", FALSE)
    /\ callFrame' = NoFrame
    /\ UNCHANGED <<extVars, now, walletApproved, walletVars, playedTime,
                   playingTime, lastId>>

\* block.timestamp does not move within a transaction
AdvanceBetweenCalls == ~callFrame.open /\ Advance(1, MaxGuardSeconds)

NextGuard ==
    \/ nonce < MaxV2Calls /\ GuardedCallAny
    \/ nonce < MaxV2Calls /\ StopSessionEnterCall
    \/ NestedCallAny
    \/ NestedStopCall
    \/ StopSessionReturn
    \/ AdvanceBetweenCalls
SpecGuard == setUp /\ [][NextGuard]_vars

\* ------------------------------------------------------------------------
\* Calls to the src/blockchain contracts
\* ------------------------------------------------------------------------
CommitChain(op, user, amount, contentId, r) ==
    /\ chain' = IF r.ok THEN r ELSE chain
    /\ Record(op, user, amount, contentId, r.ok)
    /\ UNCHANGED <<now, ledgerVars, walletApproved, walletVars, playedTime,
                   modelBVars, backendVars>>

BcDepositCall ==
    \E u \in Users, assets \in {0, BcFunds} :
        \E r \in {deposit_bc(chain, u, assets, u)} :
            CommitChain("bc.deposit", u, assets, "-", r)

BcWithdrawCall ==
    \E u \in Users, assets \in {BcYield} :
        \E r \in {withdraw_bc(chain, u, assets, u, u)} :
            CommitChain("bc.withdraw", u, assets, "-", r)

BcAddMockYieldCall ==
    \E caller \in {OWNER, "alice"} :
        \E r \in {addMockYield(chain, caller, BcYield)} :
            CommitChain("bc.addMockYield", caller, BcYield, "-", r)

BcSetupUserCall ==
    \E caller \in {OWNER, "alice"}, u \in Users :
        \E r \in {setupUser(chain, caller, u)} :
            CommitChain("bc.setupUser", u, 0, "-", r)

BcListContentCall ==
    \E caller \in {OWNER, "alice"}, k \in Contents,
       l \in {BcListing, <<BcListing[1], 0>>} :
        \E r \in {listContent(chain, caller, k, l[1], l[2], CREATOR)} :
            CommitChain("bc.listContent", caller, l[1], k, r)

BcStartStreamCall ==
    \E u \in Users, k \in Contents :
        \E r \in {startStream_bc(chain, u, k, now)} :
            CommitChain("bc.startStream", u, 0, k, r)

BcPauseStreamCall ==
    \E u \in Users, k \in Contents :
        \E r \in {pauseStream_bc(chain, u, k, now)} :
            CommitChain("bc.pauseStream", u, 0, k, r)

\* the amount recorded for a stop is the payment it computed
BcStopStreamCall ==
    \E u \in Users, k \in Contents :
        \E r \in {stopStream_bc(chain, u, k, now)},
           paymentAmount \in {_calculatePayment_bc(chain.contents[k],
                                 totalTimeConsumed(chain.userSessions[u][k],
                                                   now))} :
            CommitChain("bc.stopStream", u, paymentAmount, k, r)

BcAdvanceSeconds == Advance(1, MaxBcSeconds)

\* the src/blockchain deployment after onboarding
InitBlockchain ==
    /\ contractsDeployed
    /\ chain \in chainOnboarded
    /\ backendIdle

NextBlockchain ==
    \/ nonce < MaxBcCalls /\ BcDepositCall
    \/ nonce < MaxBcCalls /\ BcWithdrawCall
    \/ nonce < MaxBcCalls /\ BcAddMockYieldCall
    \/ nonce < MaxBcCalls /\ BcSetupUserCall
    \/ nonce < MaxBcCalls /\ BcListContentCall
    \/ nonce < MaxBcCalls /\ BcStartStreamCall
    \/ nonce < MaxBcCalls /\ BcPauseStreamCall
    \/ nonce < MaxBcCalls /\ BcStopStreamCall
    \/ BcAdvanceSeconds
SpecBlockchain == InitBlockchain /\ [][NextBlockchain]_vars

\* ------------------------------------------------------------------------
\* The backend's request handlers, one action per await
\* ------------------------------------------------------------------------
\* request r is at the await `pc` of the handler `op`
At(r, op, pc) == requests[r].op = op /\ requests[r].pc = pc

\* the awaited call returned; the handler runs on to its next await
Goto(r, pc) ==
    /\ requests' = [requests EXCEPT ![r].pc = pc]
    /\ UNCHANGED <<served, contractVars, chain>>

\* the handler returns with a status code
Respond(r, statusCode) ==
    /\ requests' = [requests EXCEPT ![r].pc = "done",
                                    ![r].statusCode = statusCode]
    /\ UNCHANGED <<served, contractVars, chain>>

\* the server accepts a request on a free slot and runs the handler up to
\* its first await
Receive(r, op, pc, userAddress, contentId, sessionId) ==
    /\ requests[r].pc \in {"idle", "done"}
    /\ served < MaxRequests
    /\ requests' = [requests EXCEPT ![r] =
            [op |-> op, pc |-> pc, userAddress |-> userAddress,
             contentId |-> contentId, sessionId |-> sessionId,
             statusCode |-> 0]]
    /\ served' = served + 1
    /\ UNCHANGED <<dbSessions, contractVars, chain>>

\* POST /api/session/start
ReceiveStart ==
    \E r \in Requests, u \in Users, k \in ContentIds :
        Receive(r, "start", "upsertUser", u, k, 0)

Start_upsertUser ==
    \E r \in Requests :
        /\ At(r, "start", "upsertUser")
        /\ Goto(r, "getContentByContentId")
        /\ UNCHANGED dbSessions

Start_getContentByContentId ==
    \E r \in Requests :
        /\ At(r, "start", "getContentByContentId")
        /\ IF requests[r].contentId \in Contents
           THEN Goto(r, "hasActiveSession")
           ELSE Respond(r, 404)
        /\ UNCHANGED dbSessions

Start_hasActiveSession ==
    \E r \in Requests :
        /\ At(r, "start", "hasActiveSession")
        /\ IF hasActiveSession(dbSessions, requests[r].userAddress,
                               requests[r].contentId)
           THEN Respond(r, 409)
           ELSE Goto(r, "checkUserBalance")
        /\ UNCHANGED dbSessions

\* the balance is read from the chain: either answer is possible
Start_checkUserBalance ==
    \E r \in Requests, hasSufficientBalance \in BOOLEAN :
        /\ At(r, "start", "checkUserBalance")
        /\ IF hasSufficientBalance
           THEN Goto(r, "getContentInfo")
           ELSE Respond(r, 400)
        /\ UNCHANGED dbSessions

Start_getContentInfo ==
    \E r \in Requests, isListed \in BOOLEAN :
        /\ At(r, "start", "getContentInfo")
        /\ IF isListed THEN Goto(r, "createSession") ELSE Respond(r, 400)
        /\ UNCHANGED dbSessions

Start_createSession ==
    \E r \in Requests :
        /\ At(r, "start", "createSession")
        /\ dbSessions' = createSession(dbSessions, requests[r].userAddress,
                                       requests[r].contentId)
        /\ requests' = [requests EXCEPT ![r].pc = "updateSession",
                                        ![r].sessionId = Len(dbSessions) + 1]
        /\ UNCHANGED <<served, contractVars, chain>>

\* the estimated cost is written; the request is answered
Start_updateSession ==
    \E r \in Requests :
        /\ At(r, "start", "updateSession")
        /\ Respond(r, 200)
        /\ UNCHANGED dbSessions

\* the sessionId arguments offered: the rows created so far and one that
\* does not exist
RowIds == 1..(Len(dbSessions) + 1)

\* the checks pause, resume and stop make on the row they read: it exists,
\* belongs to the caller and has one of the expected statuses
checkSession(r, expected, next) ==
    LET id == requests[r].sessionId
    IN IF id \notin DOMAIN dbSessions THEN Respond(r, 404)
       ELSE IF dbSessions[id].userAddress # requests[r].userAddress
            THEN Respond(r, 403)
       ELSE IF dbSessions[id].status \notin expected THEN Respond(r, 400)
       ELSE Goto(r, next)

\* POST /api/session/pause
ReceivePause ==
    \E r \in Requests, u \in Users, id \in RowIds :
        Receive(r, "pause", "getSessionBySessionId", u, "-", id)

Pause_getSessionBySessionId ==
    \E r \in Requests :
        /\ At(r, "pause", "getSessionBySessionId")
        /\ checkSession(r, {"ACTIVE"}, "updateSession")
        /\ UNCHANGED dbSessions

Pause_updateSession ==
    \E r \in Requests :
        /\ At(r, "pause", "updateSession")
        /\ dbSessions' = updateSession(dbSessions, requests[r].sessionId,
                                       "PAUSED")
        /\ Respond(r, 200)

\* POST /api/session/resume
ReceiveResume ==
    \E r \in Requests, u \in Users, id \in RowIds :
        Receive(r, "resume", "getSessionBySessionId", u, "-", id)

Resume_getSessionBySessionId ==
    \E r \in Requests :
        /\ At(r, "resume", "getSessionBySessionId")
        /\ checkSession(r, {"PAUSED"}, "updateSession")
        /\ UNCHANGED dbSessions

Resume_updateSession ==
    \E r \in Requests :
        /\ At(r, "resume", "updateSession")
        /\ dbSessions' = updateSession(dbSessions, requests[r].sessionId,
                                       "ACTIVE")
        /\ Respond(r, 200)

\* POST /api/session/stop
ReceiveStop ==
    \E r \in Requests, u \in Users, id \in RowIds :
        Receive(r, "stop", "getSessionBySessionId", u, "-", id)

\* a payment is due when no txHash was sent, time was consumed and the cost
\* is positive: either case is possible
Stop_getSessionBySessionId ==
    \E r \in Requests, paymentDue \in BOOLEAN :
        /\ At(r, "stop", "getSessionBySessionId")
        /\ checkSession(r, {"ACTIVE", "PAUSED"},
                        IF paymentDue THEN "stopStream" ELSE "updateSession")
        /\ UNCHANGED dbSessions

\* blockchain.stopStream returns or throws
Stop_stopStream ==
    \E r \in Requests, paid \in BOOLEAN :
        /\ At(r, "stop", "stopStream")
        /\ Goto(r, IF paid THEN "updateSession" ELSE "updateSessionFailed")
        /\ UNCHANGED dbSessions

Stop_updateSession ==
    \E r \in Requests :
        /\ At(r, "stop", "updateSession")
        /\ dbSessions' = updateSession(dbSessions, requests[r].sessionId,
                                       "COMPLETED")
        /\ Respond(r, 200)

\* the catch block of the payment
Stop_updateSessionFailed ==
    \E r \in Requests :
        /\ At(r, "stop", "updateSessionFailed")
        /\ dbSessions' = updateSession(dbSessions, requests[r].sessionId,
                                       "FAILED")
        /\ Respond(r, 200)

NextBackend ==
    \/ ReceiveStart
    \/ Start_upsertUser
    \/ Start_getContentByContentId
    \/ Start_hasActiveSession
    \/ Start_checkUserBalance
    \/ Start_getContentInfo
    \/ Start_createSession
    \/ Start_updateSession
    \/ ReceivePause
    \/ Pause_getSessionBySessionId
    \/ Pause_updateSession
    \/ ReceiveResume
    \/ Resume_getSessionBySessionId
    \/ Resume_updateSession
    \/ ReceiveStop
    \/ Stop_getSessionBySessionId
    \/ Stop_stopStream
    \/ Stop_updateSession
    \/ Stop_updateSessionFailed
SpecBackend == Init /\ [][NextBackend]_vars

\* accrual over whole years: deposits, withdrawals, rate changes and time
\* moving on a year at a time
NextAccrual ==
    \/ nonce < MaxLedgerCalls /\ DepositCall
    \/ nonce < MaxLedgerCalls /\ WithdrawCall
    \/ nonce < MaxLedgerCalls /\ SetAPYCall
    \/ AdvanceYear
SpecAccrual == Init /\ [][NextAccrual]_vars

\* every operation of the ledger: the vault's entry points, the yield
\* injection and a direct transfer of the asset to the vault
NextLedger ==
    \/ nonce < MaxVaultCalls /\ DepositCall
    \/ nonce < MaxVaultCalls /\ MintCall
    \/ nonce < MaxVaultCalls /\ WithdrawCall
    \/ nonce < MaxVaultCalls /\ RedeemCall
    \/ nonce < MaxVaultCalls /\ TransferCall
    \/ nonce < MaxVaultCalls /\ SetAPYCall
    \/ nonce < MaxVaultCalls /\ MintWithYieldCall
    \/ nonce < MaxVaultCalls /\ UsdcTransferCall
    \/ AdvanceYears
SpecLedger == Init /\ [][NextLedger]_vars

\* the share ledger: shares minted, redeemed and moved between accounts, with
\* yield injected and accrued in between
NextShares ==
    \/ nonce < MaxLedgerCalls /\ DepositCall
    \/ nonce < MaxLedgerCalls /\ MintCall
    \/ nonce < MaxLedgerCalls /\ RedeemCall
    \/ nonce < MaxLedgerCalls /\ TransferCall
    \/ nonce < MaxLedgerCalls /\ MintWithYieldCall
    \/ AdvanceYears
SpecShares == Init /\ [][NextShares]_vars

Next ==
    \/ NextVault
    \/ NextA
    \/ NextB
    \/ nonce < MaxSessionCalls /\ ListContentCall
Spec == Init /\ [][Next]_vars

\* ------------------------------------------------------------------------
\* Properties
\* ------------------------------------------------------------------------
SumPrincipal ==
    LET RECURSIVE Sum(_)
        Sum(S) == IF S = {} THEN 0
                  ELSE LET u == CHOOSE x \in S : TRUE
                       IN principalOf[u] + Sum(S \ {u})
    IN Sum(Users)

\* the step is a call `op` that committed
Committed(op) == last'.op = op /\ last'.ok /\ nonce' = nonce + 1

\* C1: after any sequence of deposits, withdrawals and time advances the
\* principals of all accounts add up to totalPrincipal.
C1_Conservation == SumPrincipal = totalPrincipal

C1_Witness ==
    /\ last.op = "withdraw" /\ last.ok /\ last.amount > 0
    /\ now > GenesisTime
    /\ \A u \in Users : principalOf[u] > 0
    /\ principalOf[last.user] \notin DepositAmounts

\* C2: a committed withdraw of A by an account whose yield is Y leaves the
\* principal as it was when A <= Y, and when A > Y takes exactly A - Y from
\* the principal and leaves a yield of 0.
C2_YieldFirst ==
    [][Committed("withdraw") =>
        LET o == last'.user
            A == last'.amount
            Y == yieldOf(Ledger, o, now)
        IN /\ A <= Y => principalOf'[o] = principalOf[o]
           /\ A > Y => /\ principalOf'[o] = principalOf[o] - (A - Y)
                       /\ yieldOf(Ledger', o, now') = 0]_vars

C2_Witness ==
    /\ last.op = "withdraw" /\ last.ok /\ last.amount = 8
    /\ principalOf[last.user] = 7
    /\ usdcBalance[last.user] = InitialFunds - 10 + 8
    /\ now > GenesisTime

\* C3 (as claimed): a committed withdraw of A < Y leaves a yield of exactly
\* Y - A and the principal as it was.
C3_RemainingYield ==
    [][Committed("withdraw") =>
        LET o == last'.user
            A == last'.amount
            Y == yieldOf(Ledger, o, now)
        IN A < Y => /\ yieldOf(Ledger', o, now') = Y - A
                    /\ principalOf'[o] = principalOf[o]]_vars

\* C4 (as claimed): once a ledger call has committed (so accrual has run),
\* the asset held by the vault covers totalPrincipal.
C4_HeldCoversPrincipal ==
    (last.op \in {"deposit", "withdraw", "mintWithYield"} /\ last.ok)
        => usdcBalance[VAULT] >= totalPrincipal

\* C5 (as claimed): when no share exists, no principal is recorded.
C5_NoSharesNoPrincipal == totalSupply = 0 => totalPrincipal = 0

\* C6: a withdraw of more than principal + yield reverts, and the ledger is
\* then exactly as before the call.
C6_InsufficientBalance ==
    [][(last'.op = "withdraw"
        /\ last'.amount > principalOf[last'.user]
                          + yieldOf(Ledger, last'.user, now))
        => ~last'.ok /\ UNCHANGED <<ledgerVars, nonce>>]_vars

C6_Witness ==
    /\ last.op = "withdraw" /\ ~last.ok
    /\ principalOf[last.user] > 0
    /\ balanceOf[last.user] > 0
    /\ last.amount > principalOf[last.user] + yieldOf(Ledger, last.user, now)
    /\ last.amount <= _convertToAssets(Ledger, balanceOf[last.user], FALSE, now)

\* the cost and the payer's funds as stopStream finds them
owedAtStop(user, contentId) ==
    getCurrentCost(userSessions, contentInfo, user, contentId, now)
fundsOf(user) == principalOf[user] + yieldOf(Ledger, user, now)

\* C7: a stopStream whose payer holds less than the amount owed reverts as a
\* whole: nothing is withdrawn, the yield part included.
C7_AllOrNothing ==
    [][(last'.op = "stopStream"
        /\ owedAtStop(last'.user, last'.contentId) > fundsOf(last'.user))
        => /\ ~last'.ok
           /\ UNCHANGED <<ledgerVars, walletVars>>]_vars

C7_Witness ==
    /\ last.op = "stopStream" /\ ~last.ok
    /\ walletApproved[last.user]
    /\ yieldOf(Ledger, last.user, now) > 0
    /\ owedAtStop(last.user, last.contentId) > fundsOf(last.user)

\* the stop finds an open record with consumed time > 0
StopWithConsumption ==
    /\ last'.op = "stopStream"
    /\ contentInfo[last'.contentId].isListed
    /\ userSessions[last'.user][last'.contentId].lastUpdateTime > 0
    /\ last'.amount > 0

\* the settlement of the stop goes through
SettlementSucceeds ==
    LET owed == owedAtStop(last'.user, last'.contentId)
    IN owed = 0
       \/ _deductPayment(Ledger, last'.user, owed, walletApproved, now).ok

\* C8 (as claimed): a stop with consumed time > 0 clears the record whatever
\* the outcome of the payment (stated for payers who approved the wallet, so
\* that the funds alone decide the payment).
C8_DeletedRegardless ==
    [][(StopWithConsumption /\ walletApproved[last'.user])
        => userSessions'[last'.user][last'.contentId] = NoSession]_vars

\* C8 (amended): a stop with consumed time > 0 clears the record when the
\* settlement succeeds; when the settlement fails the call reverts and the
\* record and the ledger stay as they were.
C8_DeletedUnlessReverted ==
    [][StopWithConsumption =>
        IF SettlementSucceeds
        THEN /\ last'.ok
             /\ userSessions'[last'.user][last'.contentId] = NoSession
        ELSE /\ ~last'.ok
             /\ UNCHANGED <<ledgerVars, walletVars>>]_vars

C8_Witness ==
    /\ last.op = "stopStream" /\ ~last.ok /\ last.amount > 0
    /\ walletApproved[last.user]
    /\ userSessions[last.user][last.contentId].isActive

\* C9: startStream on an (account, content) whose session is active reverts
\* and changes no session and nothing else.
C9_NoDoubleStart ==
    [][(last'.op = "startStream"
        /\ userSessions[last'.user][last'.contentId].isActive)
        => /\ ~last'.ok
           /\ UNCHANGED <<ledgerVars, walletVars>>]_vars

C9_Witness ==
    /\ last.op = "startStream" /\ ~last.ok
    /\ userSessions[last.user][last.contentId].isActive
    /\ now > userSessions[last.user][last.contentId].lastUpdateTime
    /\ \E u \in Users \ {last.user} : userSessions[u][last.contentId].isActive

\* C10: the consumed time of an open session, as getCurrentCost and
\* stopStream compute it, is the time the session was active: paused time
\* is not counted and a resume keeps the accumulated time.
C10_ActiveTimeOnly ==
    /\ [](\A u \in Users, c \in Contents :
            userSessions[u][c].lastUpdateTime > 0
                => totalConsumedTime(userSessions[u][c], now) = playedTime[u][c])
    /\ [][(last'.op = "stopStream"
           /\ userSessions[last'.user][last'.contentId].lastUpdateTime > 0)
            => last'.amount = playedTime[last'.user][last'.contentId]]_vars

\* a session that ran 1 s, was paused, resumed at GenesisTime + 3 and has
\* run 2 s since
C10_Witness ==
    \E u \in Users, c \in Contents :
        /\ userSessions[u][c].isActive
        /\ userSessions[u][c].accumulatedTime = 1
        /\ userSessions[u][c].lastUpdateTime = GenesisTime + 3
        /\ now = GenesisTime + 5
        /\ playedTime[u][c] = 3

\* C11: stopping a session that was started at this very timestamp and has
\* no accumulated time succeeds, charges nothing (principal, yield, shares and
\* every other ledger field stay as they were) and clears the record.
C11_ZeroConsumptionStop ==
    [][(LET session == userSessions[last'.user][last'.contentId]
        IN /\ last'.op = "stopStream"
           /\ session.isActive
           /\ session.accumulatedTime = 0
           /\ session.lastUpdateTime = now)
        => /\ last'.ok /\ last'.amount = 0
           /\ UNCHANGED ledgerVars
           /\ yieldOf(Ledger', last'.user, now') = yieldOf(Ledger, last'.user, now)
           /\ userSessions'[last'.user][last'.contentId] = NoSession]_vars

C11_Witness ==
    /\ last.op = "stopStream" /\ last.ok /\ last.amount = 0
    /\ now > GenesisTime
    /\ userSessions[last.user][last.contentId] = NoSession
    /\ principalOf[last.user] = DemoDeposit
    /\ yieldOf(Ledger, last.user, now) > 0

\* C12: stopStream on an (account, content) without an open record, never
\* started or already stopped, reverts and changes neither the sessions nor
\* the ledger.
C12_StopWithoutRecord ==
    [][(last'.op = "stopStream"
        /\ userSessions[last'.user][last'.contentId].lastUpdateTime = 0)
        => /\ ~last'.ok
           /\ UNCHANGED <<ledgerVars, walletVars, nonce>>]_vars

\* a stop refused after the same account paid for an earlier stop
C12_Witness ==
    /\ last.op = "stopStream" /\ ~last.ok
    /\ userSessions[last.user][last.contentId] = NoSession
    /\ usdcBalance[last.user] > InitialFunds

\* C13: a committed stopStream owing O, for a payer whose yield was Y, lowers
\* the payer's principal by exactly max(0, O - Y); with O <= Y the principal
\* stays as it was.
C13_PrincipalAfterStop ==
    [][Committed("stopStream") =>
        LET u == last'.user
            O == owedAtStop(u, last'.contentId)
            Y == yieldOf(Ledger, u, now)
        IN /\ principalOf'[u] = principalOf[u] - Max(0, O - Y)
           /\ O <= Y => principalOf'[u] = principalOf[u]]_vars

\* a stop that took the whole yield and a part of the principal
C13_Witness ==
    /\ last.op = "stopStream" /\ last.ok /\ last.amount > 0
    /\ principalOf[last.user] < DemoDeposit
    /\ principalOf[last.user] > 0
    /\ usdcBalance[last.user]
            > InitialFunds + (DemoDeposit - principalOf[last.user])

\* ------------------------------------------------------------------------
\* Properties of Model B
\* ------------------------------------------------------------------------
SessionOps == {"pauseSession", "resumeSession", "stopSession"}
ActiveStatus == {"PLAYING", "PAUSED"}

\* the asset the streaming wallet receives in the step
paidInStep == usdcBalance'[WALLET] - usdcBalance[WALLET]

\* a is the smallest multiple of 1000 that is >= x
IsRoundedUp(a, x) == a % 1000 = 0 /\ a >= x /\ a - 1000 < x

\* C14 (as claimed): the consumed seconds a committed stopSession charges for
\* are at least the internally metered ones (stored consumedSec plus the
\* running Playing period), whatever the caller reports.
C14_NeverUndercharged ==
    [][Committed("stopSession") =>
        sessions'[lastId'].consumedSec
            >= getCurrentConsumedTime(sessions[lastId'], now)]_vars

\* C15: pauseSession, resumeSession and stopSession by an account other than
\* the session's owner revert and leave the sessions, the active-session
\* lists and the ledger as they were.
C15_OwnerOnly ==
    [][(last'.op \in SessionOps /\ sessions[lastId'].user # last'.user)
        => /\ ~last'.ok
           /\ UNCHANGED <<v2Vars, ledgerVars, nonce>>]_vars

\* an open session of another account was the target
C15_Witness ==
    /\ last.op \in SessionOps /\ ~last.ok
    /\ sessions[lastId].user \in Users \ {last.user}
    /\ sessions[lastId].status \in ActiveStatus
    /\ now > GenesisTime

\* C16: a session changes its status only Playing->Paused by pauseSession,
\* Paused->Playing by resumeSession and Playing|Paused->Stopped by
\* stopSession; a pause of a session that is not Playing, a resume of one
\* that is not Paused and every operation on a Stopped session revert and
\* change nothing; a Stopped session never changes again.
C16_Lifecycle ==
    [][/\ \A id \in DOMAIN sessions :
            (sessions[id].status # "IDLE"
             /\ sessions'[id].status # sessions[id].status)
            => /\ lastId' = id
               /\ \/ /\ Committed("pauseSession")
                     /\ sessions[id].status = "PLAYING"
                     /\ sessions'[id].status = "PAUSED"
                  \/ /\ Committed("resumeSession")
                     /\ sessions[id].status = "PAUSED"
                     /\ sessions'[id].status = "PLAYING"
                  \/ /\ Committed("stopSession")
                     /\ sessions[id].status \in ActiveStatus
                     /\ sessions'[id].status = "STOPPED"
       /\ ((\/ last'.op = "pauseSession"
               /\ sessions[lastId'].status # "PLAYING"
            \/ last'.op = "resumeSession"
               /\ sessions[lastId'].status # "PAUSED"
            \/ last'.op \in SessionOps
               /\ sessions[lastId'].status = "STOPPED")
           => /\ ~last'.ok
              /\ UNCHANGED <<v2Vars, ledgerVars, nonce>>)
       /\ \A id \in DOMAIN sessions :
            sessions[id].status = "STOPPED" => sessions'[id] = sessions[id]
      ]_vars

\* the owner's call on their Stopped session was refused
C16_Witness ==
    /\ last.op \in SessionOps /\ ~last.ok
    /\ sessions[lastId].status = "STOPPED"
    /\ sessions[lastId].user = last.user

\* C17: the amount a committed stopSession charges for c consumed seconds at
\* rate r, and the amount getCurrentAmountOwed projects, is the smallest
\* multiple of 1000 that is >= c * r.
C17_RoundedUp ==
    /\ [][Committed("stopSession") =>
            IsRoundedUp(paidInStep,
                        sessions'[lastId'].consumedSec
                            * sessions[lastId'].pricePerSecond)]_vars
    /\ [](\A id \in DOMAIN sessions :
            IsRoundedUp(getCurrentAmountOwed(sessions[id], now),
                        getCurrentConsumedTime(sessions[id], now)
                            * sessions[id].pricePerSecond))

\* 7 seconds at rate 333 were charged 3000
C17_Witness ==
    /\ last.op = "stopSession" /\ last.ok
    /\ sessions[lastId].consumedSec = 7
    /\ sessions[lastId].pricePerSecond = 333
    /\ usdcBalance[WALLET] = 3000

\* C18 (as claimed): at any moment getCurrentConsumedTime of a session is the
\* total length of its Playing periods so far.
C18_ConsumedIsPlayingTime ==
    \A id \in DOMAIN sessions :
        getCurrentConsumedTime(sessions[id], now) = playingTime[id]

\* C18 (amended): for a session that is Playing or Paused,
\* getCurrentConsumedTime is the total length of its Playing periods so far
\* and does not grow while it is Paused; stopping a Paused session with a
\* reported duration of 0 charges for the Playing time only.
C18_ActiveConsumedIsPlayingTime ==
    /\ [](\A id \in DOMAIN sessions :
            sessions[id].status \in ActiveStatus
                => getCurrentConsumedTime(sessions[id], now) = playingTime[id])
    /\ [][\A id \in DOMAIN sessions :
            (sessions[id].status = "PAUSED" /\ sessions'[id].status = "PAUSED")
                => getCurrentConsumedTime(sessions'[id], now')
                     = getCurrentConsumedTime(sessions[id], now)]_vars
    /\ [][(Committed("stopSession")
           /\ sessions[lastId'].status = "PAUSED" /\ last'.amount = 0)
            => /\ sessions'[lastId'].consumedSec = playingTime[lastId']
               /\ IsRoundedUp(paidInStep,
                              playingTime[lastId']
                                * sessions[lastId'].pricePerSecond)]_vars

\* a session that played 1 s, was paused for 1 s and has played 1 s since
C18_Witness ==
    \E id \in DOMAIN sessions :
        /\ sessions[id].status = "PLAYING"
        /\ sessions[id].consumedSec = 1
        /\ sessions[id].startTime = now - 1
        /\ now = GenesisTime + 3
        /\ playingTime[id] = 2

\* the ids in a list, and the ids of the open sessions of an account
idsOf(list) == {list[i] : i \in 1..Len(list)}
openSessionsOf(u) ==
    {id \in DOMAIN sessions :
        sessions[id].user = u /\ sessions[id].status \in ActiveStatus}

\* C19: the active-session list of every account holds exactly the ids of
\* its Playing or Paused sessions, each once; startSession appends the new
\* id and a committed stopSession removes that id and no other.
C19_ActiveList ==
    /\ [](\A u \in Users :
            /\ idsOf(userActiveSessions[u]) = openSessionsOf(u)
            /\ Len(userActiveSessions[u]) = Cardinality(openSessionsOf(u)))
    /\ [][Committed("startSession") =>
            /\ lastId' = _sessionCounter + 1
            /\ userActiveSessions' =
                [userActiveSessions EXCEPT
                    ![last'.user] = Append(@, lastId')]]_vars
    /\ [][Committed("stopSession") =>
            /\ idsOf(userActiveSessions'[last'.user])
                = idsOf(userActiveSessions[last'.user]) \ {lastId'}
            /\ Len(userActiveSessions'[last'.user])
                = Len(userActiveSessions[last'.user]) - 1
            /\ \A u \in Users \ {last'.user} :
                userActiveSessions'[u] = userActiveSessions[u]]_vars

\* the first of two open sessions of an account was stopped
C19_Witness ==
    /\ last.op = "stopSession" /\ last.ok
    /\ lastId = 1
    /\ userActiveSessions[last.user] = <<2>>
    /\ sessions[2].status \in ActiveStatus

\* the vault withdrawal stopSession would issue fails
paymentFails(u, id, reported) ==
    LET amount == amountToPay(finalConsumedSec(sessions[id], reported, now),
                              sessions[id].pricePerSecond)
    IN /\ amount > 0
       /\ ~withdraw(Ledger, WALLET, amount, WALLET, u, walletApproved, now).ok

\* C20: a stopSession by the owner of an open session whose vault withdrawal
\* fails reverts as a whole: the session keeps its status, consumedSec and
\* timestamps and stays in the active-session list, and the ledger is
\* unchanged.
C20_FailedSettlement ==
    [][(/\ last'.op = "stopSession"
        /\ sessions[lastId'].user = last'.user
        /\ sessions[lastId'].status \in ActiveStatus
        /\ paymentFails(last'.user, lastId', last'.amount))
        => /\ ~last'.ok
           /\ UNCHANGED <<v2Vars, ledgerVars, nonce>>]_vars

C20_Witness ==
    /\ last.op = "stopSession" /\ ~last.ok
    /\ sessions[lastId].user = last.user
    /\ sessions[lastId].status \in ActiveStatus
    /\ lastId \in idsOf(userActiveSessions[last.user])
    /\ paymentFails(last.user, lastId, last.amount)
    /\ principalOf[last.user] > 0

\* ------------------------------------------------------------------------
\* Properties of the ledger under every operation
\* ------------------------------------------------------------------------

\* C21: accumulatedYieldPerShare never decreases, whichever operation or
\* accrual is applied (deposit, mint, withdraw, redeem, share transfer,
\* setAPY, yield injection)
C21_IndexMonotone ==
    [][IndexLeq(accumulatedYieldPerShare, accumulatedYieldPerShare')]_vars

\* the index was raised twice: by an accrual over elapsed time and by a
\* yield injection in the same call
C21_Witness ==
    /\ last.op = "mintWithYield" /\ last.ok
    /\ lastYieldUpdate > GenesisTime
    /\ \E u \in Users : balanceOf[u] > 0 /\ u # last.user
    /\ accumulatedYieldPerShare # ZeroIndex

\* the ledger at the moment mintWithYield(to, amount) calls simulateYield:
\* the asset minted and the deposit made
atInjection(to, amount) ==
    deposit(usdcMint(Ledger, USDC, amount + ((amount * 20) \div 100)),
            USDC, amount, to, now)

\* C22: a yield injection made while the total share supply is 0 fails and
\* changes no state, the vault's asset balance included
C22_InjectionNeedsShares ==
    [][\A to \in Users, amount \in MintAmounts :
         ( /\ last'.op = "mintWithYield"
           /\ last'.user = to /\ last'.amount = amount
           /\ (amount * 20) \div 100 > 0
           /\ \E d \in {atInjection(to, amount)} :
                 d.ok /\ d.totalSupply = 0 )
         => ~last'.ok /\ UNCHANGED ledgerVars]_vars

\* C23: a deposit of amount 0 fails (and so changes no state): no deposit
\* call with amount 0 commits
C23_ZeroDepositFails ==
    [][~(Committed("deposit") /\ last'.amount = 0)]_vars

\* C24: with a total share supply of 0, a deposit of a > 0 issues exactly a
\* shares to the beneficiary and raises principalOf(beneficiary) and
\* totalPrincipal by a, whatever preceded it
C24_FirstDepositOneToOne ==
    [][(Committed("deposit") /\ totalSupply = 0 /\ last'.amount > 0) =>
        LET u == last'.user
            a == last'.amount
        IN /\ balanceOf'[u] = balanceOf[u] + a
           /\ principalOf'[u] = principalOf[u] + a
           /\ totalPrincipal' = totalPrincipal + a]_vars

\* C25: the annual rate stays within [0, 10000] basis points; a setAPY call
\* by a non-owner, or with a rate above 10000, fails and leaves the rate, the
\* index and lastYieldUpdate unchanged
C25_RateBounded ==
    /\ [](apyBasisPoints \in 0..BASIS_POINTS)
    /\ [][(last'.op = "setAPY"
            /\ (last'.user # OWNER \/ last'.amount > BASIS_POINTS))
          => /\ ~last'.ok
             /\ UNCHANGED <<apyBasisPoints, accumulatedYieldPerShare,
                            lastYieldUpdate>>]_vars

\* a setAPY above the cap was rejected while an accrual was pending
C25_Witness ==
    /\ last.op = "setAPY" /\ ~last.ok
    /\ last.user = OWNER /\ last.amount > BASIS_POINTS
    /\ totalSupply > 0 /\ now > lastYieldUpdate

\* u is the single depositor, holds no claimable yield from before, and
\* exactly one year has passed since the last operation
OneYearAlone(u) ==
    /\ totalSupply > 0 /\ balanceOf[u] = totalSupply
    /\ principalOf[u] = totalPrincipal
    /\ yieldDebt[u] = MulIndex(balanceOf[u], accumulatedYieldPerShare)
    /\ now - lastYieldUpdate = SECONDS_PER_YEAR

\* floor(P * r / 10000)
oneYearYield(P, r) == (P * r) \div BASIS_POINTS

\* C26: for a single depositor with principal P at rate r, one year after
\* the last operation yieldOf is floor(P * r / 10000) or one unit below it
C26_AccrualLinearity ==
    \A u \in Users :
        OneYearAlone(u) =>
            LET G == oneYearYield(principalOf[u], apyBasisPoints)
                Y == yieldOf(Ledger, u, now)
            IN Y <= G /\ Y >= G - 1 /\ Y >= 0

\* a year in which the truncation of the index costs the depositor one unit
C26_Witness ==
    \E u \in Users :
        /\ OneYearAlone(u)
        /\ apyBasisPoints < BASIS_POINTS
        /\ oneYearYield(principalOf[u], apyBasisPoints) >= 2
        /\ yieldOf(Ledger, u, now)
             = oneYearYield(principalOf[u], apyBasisPoints) - 1

\* C27: mintWithYield(to, amount), from any prior vault state, raises
\* principalOf(to) by amount and leaves yieldOf(to) at 20% of amount, up to
\* one unit of rounding
C27_MintWithYieldCredits ==
    [][Committed("mintWithYield") =>
        LET to == last'.user
            amount == last'.amount
            yieldAmount == (amount * 20) \div 100
            Y == yieldOf(Ledger', to, now')
        IN /\ principalOf'[to] = principalOf[to] + amount
           /\ Y <= yieldAmount + 1
           /\ Y >= yieldAmount - 1]_vars

\* C30: a Model A settlement is one ledger operation: a committed stopStream
\* with a positive charge issues exactly one vault withdraw, for the whole
\* amount owed, and leaves the ledger as that one withdraw leaves it
C30_SingleWithdraw ==
    [][(Committed("stopStream")
          /\ owedAtStop(last'.user, last'.contentId) > 0)
        => LET u == last'.user
               O == owedAtStop(u, last'.contentId)
           IN /\ withdrawCalls(Ledger, u, O, now) = 1
              /\ Ledger' = withdraw(Ledger, WALLET, O, u, u, walletApproved,
                                    now)]_vars

\* ------------------------------------------------------------------------
\* Properties of the src/blockchain contracts
\* ------------------------------------------------------------------------

\* C28: a stopStream payment of an amount <= yieldOf(user) is taken from the
\* yield: it leaves principalOf(user) unchanged
C28_YieldFirst ==
    [][(Committed("bc.stopStream") /\ last'.amount > 0
          /\ last'.amount <= yieldOf_bc(chain, last'.user))
        => chain'.principalOf[last'.user] = chain.principalOf[last'.user]]_vars

\* ------------------------------------------------------------------------
\* Properties of the backend session store
\* ------------------------------------------------------------------------
openRows(userAddress, contentId) ==
    {i \in DOMAIN dbSessions :
        /\ dbSessions[i].userAddress = userAddress
        /\ dbSessions[i].contentId = contentId
        /\ dbSessions[i].status \in {"ACTIVE", "PAUSED"}}

\* C29: a user never has more than one ACTIVE or PAUSED session for the
\* same content, also when start requests for the same (userAddress,
\* contentId) interleave at their awaits
C29_OneOpenSession ==
    \A u \in Users, k \in Contents : Cardinality(openRows(u, k)) <= 1

\* the cost of an open record computed from the time the session has played
costOfPlayed(user, contentId) ==
    IF ~contentInfo[contentId].isListed
       \/ userSessions[user][contentId].lastUpdateTime = 0
    THEN 0
    ELSE (contentInfo[contentId].fullPrice * playedTime[user][contentId])
            \div contentInfo[contentId].totalDuration

\* C31: getCurrentCost(account, contentId) at time T returns
\* floor(fullPrice * consumed / totalDuration) and changes no state, and a
\* stopStream by that account that commits at T withdraws exactly that amount.
C31_ProjectionConsistency ==
    /\ [][last'.op = "getCurrentCost"
            => /\ last'.amount = costOfPlayed(last'.user, last'.contentId)
               /\ UNCHANGED <<now, nonce, ledgerVars, walletApproved,
                              walletVars>>]_vars
    /\ [][Committed("stopStream")
            => usdcBalance'[last'.user] - usdcBalance[last'.user]
                 = owedAtStop(last'.user, last'.contentId)]_vars

\* a poll of a session that ran, was paused and runs again, on a content
\* that was re-listed
C31_Witness ==
    /\ last.op = "getCurrentCost" /\ last.amount > 0
    /\ userSessions[last.user][last.contentId].isActive
    /\ userSessions[last.user][last.contentId].accumulatedTime > 0
    /\ now > userSessions[last.user][last.contentId].lastUpdateTime
    /\ contentInfo[last.contentId].fullPrice = NewListing[1]

\* the step is a call made while a stopSession waits in vault.withdraw
NestedStep == callFrame.open /\ callFrame'.open
                /\ callFrame'.nested = callFrame.nested + 1

\* C32: while a stopSession is calling out to the vault the lock is held and
\* every nested startSession, pauseSession, resumeSession or stopSession fails
\* and changes nothing; when no call is executing the lock is free, so a
\* top-level call made after a successful or a failed call is decided by its
\* own requirements only.
C32_ReentrancyLock ==
    /\ [](callFrame.open <=> _status = ENTERED)
    /\ [][NestedStep => ~last'.ok /\ UNCHANGED <<v2Vars, ledgerVars>>]_vars
    /\ [][(~callFrame.open /\ last'.op = "pauseSession")
            => last'.ok = pauseSession(WalletV2, last'.user, lastId', now).ok]_vars
    /\ [][(~callFrame.open /\ last'.op = "resumeSession")
            => last'.ok = resumeSession(WalletV2, last'.user, lastId', now).ok]_vars

\* two nested calls were refused while the session of one account was being
\* settled and a session of another account was open
C32_Witness ==
    /\ callFrame.open /\ callFrame.nested = MaxNested
    /\ ~last.ok
    /\ sessions[callFrame.sessionId].status = "STOPPED"
    /\ \E id \in DOMAIN sessions :
          /\ id # callFrame.sessionId
          /\ sessions[id].status \in {"PLAYING", "PAUSED"}
          /\ sessions[id].user # callFrame.caller

\* u holds every share of the vault
SoleHolder(u) ==
    /\ totalSupply > 0 /\ balanceOf[u] = totalSupply
    /\ principalOf[u] = totalPrincipal

\* C33: a committed setAPY at time T leaves every account the yield the old
\* rate had accrued up to T, restarts the accrual at T and installs the new
\* rate; the yield a sole depositor with principal P has gained since the
\* accrual was last applied is floor(P * rate * years / 10000) at the rate in
\* force since then, up to one unit of rounding.
C33_AccrualBeforeSwap ==
    /\ [][Committed("setAPY")
            => /\ apyBasisPoints' = last'.amount
               /\ lastYieldUpdate' = now
               /\ \A u \in Users :
                     yieldOf(Ledger', u, now') = yieldOf(Ledger, u, now)]_vars
    /\ [](\A u \in Users :
            SoleHolder(u)
                => LET years == (now - lastYieldUpdate) \div SECONDS_PER_YEAR
                       G == (principalOf[u] * apyBasisPoints * years)
                                \div BASIS_POINTS
                       D == yieldOf(Ledger, u, now)
                                - yieldOf(Ledger, u, lastYieldUpdate)
                   IN D >= G - 1 /\ D <= G + 1)

\* a depositor of 10 who earned a year at 100%, then a year at 30%
C33_Witness ==
    \E u \in Users :
        /\ SoleHolder(u) /\ principalOf[u] = 10
        /\ apyBasisPoints = 3000
        /\ lastYieldUpdate = GenesisTime + SECONDS_PER_YEAR
        /\ now = lastYieldUpdate + SECONDS_PER_YEAR
        /\ yieldOf(Ledger, u, now) >= 12
        /\ yieldOf(Ledger, u, now) <= 13

\* C34: yieldOf(account) read at time T, before any accrual was applied,
\* equals yieldOf(account) right after a deposit or withdraw of another
\* account, or a setAPY, has applied the accrual at T.
C34_ReadIncludesPending ==
    [][\A u \in Users :
        (/\ \/ Committed("deposit") \/ Committed("withdraw")
            \/ Committed("setAPY")
         /\ last'.user # u
         /\ balanceOf'[u] = balanceOf[u])
            => yieldOf(Ledger', u, now') = yieldOf(Ledger, u, now)]_vars

\* another account's deposit applied a year of accrual that the first
\* depositor's yieldOf had already shown
C34_Witness ==
    /\ last.op = "deposit" /\ last.ok /\ last.amount > 0
    /\ lastYieldUpdate = now /\ now > GenesisTime
    /\ \E u \in Users \ {last.user} :
          /\ balanceOf[u] > 0
          /\ yieldOf(Ledger, u, now) > 0
          /\ accumulatedYieldPerShare # ZeroIndex

\* C35 (as claimed): a committed deposit to an account that holds shares and
\* has a yield Y > 0 leaves that account a yield of at least Y.
C35_DepositKeepsYield ==
    [][\A u \in Users :
        (/\ Committed("deposit") /\ last'.user = u /\ last'.amount > 0
         /\ balanceOf[u] > 0
         /\ yieldOf(Ledger, u, now) > 0)
            => yieldOf(Ledger', u, now') >= yieldOf(Ledger, u, now)]_vars

\* C36 (as claimed): a withdraw by the owner of any amount from 1 up to
\* principalOf + yieldOf succeeds.
C36_TotalValueWithdrawable ==
    \A u \in Users, amount \in WithdrawAmounts :
        (0 < amount /\ amount <= principalOf[u] + yieldOf(Ledger, u, now))
            => withdraw(Ledger, u, amount, u, u, walletApproved, now).ok

\* C37 (as claimed): with mint, redeem and share transfers among the
\* operations, the principals of all accounts still add up to totalPrincipal.
C37_ConservationWithShares ==
    (last.op \in {"mint", "redeem", "transfer"} /\ last.ok)
        => SumPrincipal = totalPrincipal

\* C38 (as claimed): the cost getCurrentCost projects for a session, and the
\* amount a committed stopStream withdraws, never exceed the fullPrice of the
\* content.
C38_ChargeCapped ==
    /\ [](\A u \in Users, c \in Contents :
            getCurrentCost(userSessions, contentInfo, u, c, now)
                <= contentInfo[c].fullPrice)
    /\ [][Committed("stopStream")
            => usdcBalance'[last'.user] - usdcBalance[last'.user]
                 <= contentInfo[last'.contentId].fullPrice]_vars

\* C39 (as claimed): a committed listContent on a content leaves the cost of
\* every session open on it as it was, so the session is charged at the
\* price and duration listed when it started.
C39_RelistKeepsCharge ==
    [][Committed("listContent") =>
        \A u \in Users :
            userSessions[u][last'.contentId].lastUpdateTime > 0
                => getCurrentCost(userSessions', contentInfo', u,
                                  last'.contentId, now')
                     = getCurrentCost(userSessions, contentInfo, u,
                                      last'.contentId, now)]_vars

\* C40 (as claimed): no two stop requests for the same session are both at
\* their call of blockchain.stopStream, and a row that is COMPLETED stays
\* COMPLETED.
C40_SettledOnce ==
    /\ [](\A r1 \in Requests, r2 \in Requests :
            (/\ r1 # r2
             /\ At(r1, "stop", "stopStream")
             /\ At(r2, "stop", "stopStream"))
                => requests[r1].sessionId # requests[r2].sessionId)
    /\ [][\A id \in DOMAIN dbSessions :
            dbSessions[id].status = "COMPLETED"
                => dbSessions'[id].status = "COMPLETED"]_vars
====
